---- MODULE Spec2Model ----
(***************************************************************************)
(* QuiZoom: the live quiz (QuizHost / QuizParticipant / MeetingRoom over a *)
(* Firestore record and the call's custom-event channel) and the shared    *)
(* whiteboard (Whiteboard over the same channel).                          *)
(***************************************************************************)
EXTENDS Integers, Sequences, FiniteSets, TLC

\* ---------------------------------------------------------------- bounds
MaxQuestions == 2
MaxQuizzes == 2
MaxListeners == 3
MaxWrites == 2
MaxTasks == 2
MaxStrokes == 1
MaxClears == 1
MaxInbox == 2
MaxEntries == 3
MaxPointerEvents == 2
MaxPoints == 52
MaxOrderedStrokes == 2

\* ------------------------------------------------------- program constants
MinTimeLimit == 5
MaxTimeLimit == 300
NumOptions == 4
NoAnswer == -1
NULL == -2
NoRef == 0
MAX_RETRY_ATTEMPTS == 5
MAX_POINTS_PER_BATCH == 25

\* Everyone who can be in the call besides the host; Players are those who
\* act in the specifications that follow a single participant.
Participants == {"p1", "p2"}
Players == {"p1"}
QuizIds == 1..MaxQuizzes

\* ------------------------------------------------------------ input sets
Titles == {<<>>, <<" ">>, <<"a">>, <<" ", "a">>}
Texts == {<<>>, <<" ">>, <<"q">>}
FilledOptions == [i \in 1..NumOptions |-> <<"o">>]
OptionLists ==
    {FilledOptions, [FilledOptions EXCEPT ![3] = <<" ">>],
     [FilledOptions EXCEPT ![NumOptions] = <<>>]}
OptionChoices == {0, 1}
TimeLimitChoices == {MinTimeLimit - 1, MinTimeLimit, MaxTimeLimit + 1}
QuestionInputs ==
    [question : Texts, options : OptionLists,
     correctOption : OptionChoices, timeLimit : TimeLimitChoices]

\* ---------------------------------------------------------------- helpers
EmptyMap == [k \in {} |-> TRUE]
Put(m, k, v) == [x \in (DOMAIN m) \cup {k} |-> IF x = k THEN v ELSE m[x]]

RECURSIVE TrimLeft(_)
TrimLeft(s) == IF s # <<>> /\ Head(s) = " " THEN TrimLeft(Tail(s)) ELSE s
RECURSIVE TrimRight(_)
TrimRight(s) ==
    IF s # <<>> /\ s[Len(s)] = " " THEN TrimRight(SubSeq(s, 1, Len(s) - 1)) ELSE s
Trim(s) == TrimRight(TrimLeft(s))

RECURSIVE SumTimeLimits(_)
SumTimeLimits(qs) ==
    IF qs = <<>> THEN 0 ELSE Head(qs).timeLimit + SumTimeLimits(Tail(qs))

RemoveAt(s, i) == [j \in 1..(Len(s) - 1) |-> IF j < i THEN s[j] ELSE s[j + 1]]

\* ------------------------------------------------------------------ state
VARIABLES
    docs,        \* the 'quizzes' collection: id -> record
    nextId,      \* the id addDoc hands out next
    emitted,     \* the custom event the channel accepted in the last step, if any
    inbox,       \* per participant: events still to be delivered
    connected,   \* non-host participants currently in the call
    h,           \* QuizHost component state
    startTask,   \* the startQuiz invocation in flight, with its closure
    hTasks,      \* endQuiz / resetQuiz invocations in flight, with their closures
    listeners,   \* host onSnapshot listeners alive, per record id
    hDirty,      \* per record id: a snapshot is due to the host listeners
    pt,          \* per participant: MeetingRoom + QuizParticipant component state
    pTasks,      \* participants' result writes in flight
    writesIssued, \* per participant and record: result writes issued so far
    stateRef,    \* per whiteboard view: stateRef.current
    mounted,     \* the peers whose whiteboard view is mounted
    initialized, \* per whiteboard view: the `initialized` state
    storage,     \* per peer: the whiteboard state saved in localStorage, if any
    wbInbox,     \* per whiteboard view: events the channel delivered, not yet handled
    strokeSends, \* sendStrokeWithRetry invocations due, with their attempt count
    stateRequests, \* requestStateWithRetry invocations due, with their attempt count
    drawn,       \* stroke batches the host has drawn so far
    cleared,     \* clears the host has made so far
    pointsBuffer, \* per whiteboard view: the number of points in pointsBuffer.current
    isDrawing,   \* per whiteboard view: the `isDrawing` state
    pointerEvents, \* per whiteboard view: pointer-down/-move events its canvas got
    localResults, \* Leaderboard: the entries of its localResults state, in order
    sortedResults, \* Leaderboard: the list it renders
    batchBuffer, \* the points in the host's pointsBuffer.current, in order
    batchStrokes \* the batches the last run of the debounced function handed on

quizVars == <<docs, nextId, emitted, inbox, connected, h, startTask, hTasks, listeners,
              hDirty, pt, pTasks, writesIssued>>
penVars == <<pointsBuffer, isDrawing, pointerEvents>>
wbVars == <<stateRef, mounted, initialized, storage, wbInbox, strokeSends, stateRequests,
            drawn, cleared, penVars>>
lbVars == <<localResults, sortedResults>>
batchVars == <<batchBuffer, batchStrokes>>
vars == <<quizVars, wbVars, lbVars, batchVars>>

NoDoc ==
    [exists |-> FALSE, title |-> <<>>, questions |-> <<>>, isActive |-> FALSE,
     results |-> EmptyMap, endTime |-> FALSE]

EmptyQuiz == [title |-> <<>>, questions |-> <<>>, results |-> EmptyMap]

NoStart == [pc |-> "none", quiz |-> EmptyQuiz, ref |-> NoRef, totalTime |-> 0, id |-> NoRef]

HostInit ==
    [activeQuizRef |-> NoRef, error |-> "", isStarting |-> FALSE, timeLeft |-> 0,
     results |-> EmptyMap, quizStatus |-> "idle", quiz |-> EmptyQuiz,
     timerResults |-> EmptyMap]

NoQuiz == [id |-> NoRef, questions |-> <<>>]

NoEvent ==
    [type |-> "none", quizId |-> NoRef, title |-> <<>>, totalQuestions |-> 0,
     totalTime |-> 0, results |-> EmptyMap]

\* A freshly mounted QuizParticipant under a MeetingRoom with no quiz event.
PartInit ==
    [showQuiz |-> FALSE, quizEvent |-> NoEvent, activeQuiz |-> NoQuiz,
     currentQuestion |-> 0, timeLeft |-> 0, liveResults |-> EmptyMap,
     quizStarted |-> FALSE, userStarted |-> FALSE, selectedOptions |-> <<>>,
     error |-> "", hasSubmitted |-> FALSE, forceShowLeaderboard |-> FALSE,
     dirty |-> FALSE, loading |-> FALSE, timerSel |-> <<>>, warned |-> FALSE]

participantCount == 1 + Cardinality(connected)

\* A write to (or the deletion of) a record reaches every participant listener
\* subscribed to it as a new snapshot.
NotifyParticipants(ptf, written) ==
    [p \in Participants |->
        IF ptf[p].showQuiz /\ ptf[p].quizEvent.quizId \in written
        THEN [ptf[p] EXCEPT !.dirty = TRUE] ELSE ptf[p]]

\* ------------------------------------------------------ host: React effects
\* Snapshot effect, deps [activeQuizRef, call, quizStatus]: the cleanup of the
\* previous run unsubscribes only when that run's quizStatus was 'idle'.
EffectListeners(hOld, hNew, L) ==
    IF hOld.activeQuizRef = hNew.activeQuizRef /\ hOld.quizStatus = hNew.quizStatus
    THEN L
    ELSE LET L1 == IF hOld.activeQuizRef # NoRef /\ hOld.quizStatus = "idle"
                   THEN [L EXCEPT ![hOld.activeQuizRef] = @ - 1]
                   ELSE L
         IN  IF hNew.activeQuizRef # NoRef
             THEN [L1 EXCEPT ![hNew.activeQuizRef] =
                       IF @ < MaxListeners THEN @ + 1 ELSE @]
             ELSE L1

Resubscribed(hOld, hNew) ==
    IF (hOld.activeQuizRef # hNew.activeQuizRef \/ hOld.quizStatus # hNew.quizStatus)
       /\ hNew.activeQuizRef # NoRef
    THEN {hNew.activeQuizRef} ELSE {}

\* Countdown effect, deps [timeLeft, activeQuizRef]: the interval callback keeps
\* the `results` of the render in which the effect last ran.
TimerClosure(hOld, hNew) ==
    IF hNew.activeQuizRef = NoRef \/ hNew.timeLeft <= 0 THEN EmptyMap
    ELSE IF hOld.timeLeft # hNew.timeLeft \/ hOld.activeQuizRef # hNew.activeQuizRef
         THEN hNew.results
         ELSE hOld.timerResults

\* A render of QuizHost after a state change; `written` are the records written
\* (or deleted) in the same step, whose listeners get a new snapshot.
HostRender(hNew, written, delivered) ==
    /\ h' = [hNew EXCEPT !.timerResults = TimerClosure(h, hNew)]
    /\ listeners' = EffectListeners(h, hNew, listeners)
    /\ hDirty' = [i \in QuizIds |->
                    /\ listeners'[i] > 0
                    /\ \/ hDirty[i] /\ i \notin delivered
                       \/ i \in written
                       \/ i \in Resubscribed(h, hNew)]

HostCommit(hNew, written) == HostRender(hNew, written, {})

\* ------------------------------------------------------------- host: compose
\* validateQuestion as it would be without the test of the options.
validateQuestionNoOptions(q) ==
    IF Trim(q.question) = <<>> THEN "Question text cannot be empty"
    ELSE IF q.timeLimit < MinTimeLimit \/ q.timeLimit > MaxTimeLimit
         THEN "Time limit must be between 5 and 300 seconds"
    ELSE ""

validateQuestion(q) ==
    IF Trim(q.question) = <<>> THEN "Question text cannot be empty"
    ELSE IF \E i \in DOMAIN q.options : Trim(q.options[i]) = <<>>
         THEN "All options must be filled out"
    ELSE IF q.timeLimit < MinTimeLimit \/ q.timeLimit > MaxTimeLimit
         THEN "Time limit must be between 5 and 300 seconds"
    ELSE ""

SetTitle(t) ==
    /\ h.quizStatus = "idle"
    /\ t # h.quiz.title
    /\ HostCommit([h EXCEPT !.quiz.title = t], {})
    /\ emitted' = NoEvent
    /\ UNCHANGED <<docs, nextId, inbox, connected, startTask, hTasks, pt, pTasks,
                   writesIssued>>
    /\ UNCHANGED wbVars
    /\ UNCHANGED lbVars
    /\ UNCHANGED batchVars

addQuestion(q) ==
    /\ h.quizStatus = "idle"
    /\ IF validateQuestion(q) # ""
       THEN HostCommit([h EXCEPT !.error = validateQuestion(q)], {})
       ELSE /\ Len(h.quiz.questions) < MaxQuestions
            /\ HostCommit([h EXCEPT !.quiz.questions = Append(@, q)], {})
    /\ emitted' = NoEvent
    /\ UNCHANGED <<docs, nextId, inbox, connected, startTask, hTasks, pt, pTasks,
                   writesIssued>>
    /\ UNCHANGED wbVars
    /\ UNCHANGED lbVars
    /\ UNCHANGED batchVars

removeQuestion(i) ==
    /\ h.quizStatus = "idle"
    /\ i \in 1..Len(h.quiz.questions)
    /\ HostCommit([h EXCEPT !.quiz.questions = RemoveAt(@, i)], {})
    /\ emitted' = NoEvent
    /\ UNCHANGED <<docs, nextId, inbox, connected, startTask, hTasks, pt, pTasks,
                   writesIssued>>
    /\ UNCHANGED wbVars
    /\ UNCHANGED lbVars
    /\ UNCHANGED batchVars

DismissError ==
    /\ h.error # ""
    /\ HostCommit([h EXCEPT !.error = ""], {})
    /\ emitted' = NoEvent
    /\ UNCHANGED <<docs, nextId, inbox, connected, startTask, hTasks, pt, pTasks,
                   writesIssued>>
    /\ UNCHANGED wbVars
    /\ UNCHANGED lbVars
    /\ UNCHANGED batchVars

\* ----------------------------------------------------------- the channel
StartEvent(id, title, n, total) ==
    [type |-> "quiz.start", quizId |-> id, title |-> title, totalQuestions |-> n,
     totalTime |-> total, results |-> EmptyMap]

ResultsEvent(id, res) ==
    [type |-> "quiz.results", quizId |-> id, title |-> <<>>, totalQuestions |-> 0,
     totalTime |-> 0, results |-> res]

\* call.sendCustomEvent resolved: the channel took the event; it reaches any
\* subset of the participants connected at that moment (best effort).
Broadcast(m) ==
    /\ emitted' = m
    /\ \E R \in SUBSET connected :
          inbox' = [p \in Participants |-> IF p \in R THEN inbox[p] \cup {m} ELSE inbox[p]]

\* ------------------------------------------------------------ host: endQuiz
\* The synchronous head of endQuiz(finalResults) run from a closure whose
\* activeQuizRef is `ref`: the set of invocations in flight afterwards.
endQuiz(tasks, ref, finalResults) ==
    IF ref = NoRef THEN tasks
    ELSE tasks \cup {[op |-> "endQuiz", pc |-> "updateDoc", ref |-> ref,
                      finalResults |-> finalResults]}

EndedDoc(d, finalResults) ==
    [d EXCEPT !.isActive = FALSE, !.results = finalResults, !.endTime = TRUE]

ClickEndQuiz ==
    /\ h.quizStatus = "active"
    /\ Cardinality(hTasks) < MaxTasks
    /\ hTasks' = endQuiz(hTasks, h.activeQuizRef, h.results)
    /\ emitted' = NoEvent
    /\ UNCHANGED <<docs, nextId, inbox, connected, h, startTask, listeners, hDirty, pt,
                   pTasks, writesIssued>>
    /\ UNCHANGED wbVars
    /\ UNCHANGED lbVars
    /\ UNCHANGED batchVars

\* endQuiz as it would be if a rejected updateDoc did not end the invocation.
endQuizUpdateDocThenSendAnyway(t, ok) ==
    /\ t \in hTasks /\ t.op = "endQuiz" /\ t.pc = "updateDoc"
    /\ hTasks' = (hTasks \ {t}) \cup {[t EXCEPT !.pc = "send"]}
    /\ IF ok /\ docs[t.ref].exists
       THEN /\ docs' = [docs EXCEPT ![t.ref] = EndedDoc(@, t.finalResults)]
            /\ HostCommit(h, {t.ref})
            /\ pt' = NotifyParticipants(pt, {t.ref})
       ELSE /\ HostCommit(h, {})
            /\ UNCHANGED <<docs, pt>>
    /\ emitted' = NoEvent
    /\ UNCHANGED <<nextId, inbox, connected, startTask, pTasks, writesIssued>>
    /\ UNCHANGED wbVars
    /\ UNCHANGED lbVars
    /\ UNCHANGED batchVars

endQuizUpdateDoc(t, ok) ==
    /\ t \in hTasks /\ t.op = "endQuiz" /\ t.pc = "updateDoc"
    /\ IF ok /\ docs[t.ref].exists
       THEN /\ docs' = [docs EXCEPT ![t.ref] = EndedDoc(@, t.finalResults)]
            /\ hTasks' = (hTasks \ {t}) \cup {[t EXCEPT !.pc = "send"]}
            /\ HostCommit(h, {t.ref})
            /\ pt' = NotifyParticipants(pt, {t.ref})
       ELSE /\ hTasks' = hTasks \ {t}
            /\ HostCommit([h EXCEPT !.error = "Failed to end quiz. Please try again."], {})
            /\ UNCHANGED <<docs, pt>>
    /\ emitted' = NoEvent
    /\ UNCHANGED <<nextId, inbox, connected, startTask, pTasks, writesIssued>>
    /\ UNCHANGED wbVars
    /\ UNCHANGED lbVars
    /\ UNCHANGED batchVars

endQuizSend(t, ok) ==
    /\ t \in hTasks /\ t.op = "endQuiz" /\ t.pc = "send"
    /\ hTasks' = hTasks \ {t}
    /\ IF ok
       THEN /\ Broadcast(ResultsEvent(t.ref, t.finalResults))
            /\ HostCommit([h EXCEPT !.timeLeft = 0, !.quizStatus = "ended"], {})
       ELSE /\ HostCommit([h EXCEPT !.error = "Failed to end quiz. Please try again."], {})
            /\ emitted' = NoEvent
            /\ UNCHANGED inbox
    /\ UNCHANGED <<docs, nextId, connected, startTask, pt, pTasks, writesIssued>>
    /\ UNCHANGED wbVars
    /\ UNCHANGED lbVars
    /\ UNCHANGED batchVars

\* ----------------------------------------------------------- host: startQuiz
QuizData(q) ==
    [exists |-> TRUE, title |-> q.title, questions |-> q.questions, isActive |-> TRUE,
     results |-> q.results, endTime |-> FALSE]

\* startQuiz as it would be with the title tested without trim().
startQuizNoTrim ==
    /\ h.quizStatus = "idle" /\ ~h.isStarting /\ startTask.pc = "none"
    /\ IF h.quiz.title = <<>>
       THEN /\ HostCommit([h EXCEPT !.error = "Please add a quiz title"], {})
            /\ UNCHANGED startTask
       ELSE IF Len(h.quiz.questions) = 0
       THEN /\ HostCommit([h EXCEPT !.error = "Please add at least one question"], {})
            /\ UNCHANGED startTask
       ELSE /\ nextId <= MaxQuizzes
            /\ startTask' = [pc |-> "addDoc", quiz |-> h.quiz, ref |-> h.activeQuizRef,
                             totalTime |-> SumTimeLimits(h.quiz.questions), id |-> NoRef]
            /\ HostCommit([h EXCEPT !.isStarting = TRUE, !.error = "",
                                    !.timeLeft = SumTimeLimits(h.quiz.questions)], {})
    /\ emitted' = NoEvent
    /\ UNCHANGED <<docs, nextId, inbox, connected, hTasks, pt, pTasks, writesIssued>>
    /\ UNCHANGED wbVars
    /\ UNCHANGED lbVars
    /\ UNCHANGED batchVars

startQuiz ==
    /\ h.quizStatus = "idle" /\ ~h.isStarting /\ startTask.pc = "none"
    /\ IF Trim(h.quiz.title) = <<>>
       THEN /\ HostCommit([h EXCEPT !.error = "Please add a quiz title"], {})
            /\ UNCHANGED startTask
       ELSE IF Len(h.quiz.questions) = 0
       THEN /\ HostCommit([h EXCEPT !.error = "Please add at least one question"], {})
            /\ UNCHANGED startTask
       ELSE /\ nextId <= MaxQuizzes
            /\ startTask' = [pc |-> "addDoc", quiz |-> h.quiz, ref |-> h.activeQuizRef,
                             totalTime |-> SumTimeLimits(h.quiz.questions), id |-> NoRef]
            /\ HostCommit([h EXCEPT !.isStarting = TRUE, !.error = "",
                                    !.timeLeft = SumTimeLimits(h.quiz.questions)], {})
    /\ emitted' = NoEvent
    /\ UNCHANGED <<docs, nextId, inbox, connected, hTasks, pt, pTasks, writesIssued>>
    /\ UNCHANGED wbVars
    /\ UNCHANGED lbVars
    /\ UNCHANGED batchVars

\* The catch and finally blocks of startQuiz. The cleanup tests the
\* activeQuizRef of the render that invoked startQuiz (the closure's `ref`).
startQuizCatch(okDelete) ==
    /\ startTask' = NoStart
    /\ IF startTask.ref # NoRef
       THEN /\ docs' = IF okDelete THEN [docs EXCEPT ![startTask.ref] = NoDoc] ELSE docs
            /\ HostCommit([h EXCEPT !.error = "Failed to start quiz. Please try again.",
                                    !.activeQuizRef = NoRef, !.isStarting = FALSE],
                          IF okDelete THEN {startTask.ref} ELSE {})
            /\ pt' = NotifyParticipants(pt, IF okDelete THEN {startTask.ref} ELSE {})
       ELSE /\ HostCommit([h EXCEPT !.error = "Failed to start quiz. Please try again.",
                                    !.isStarting = FALSE], {})
            /\ UNCHANGED <<docs, pt>>

\* startQuizAddDoc as it would be if a rejected addDoc did not stop startQuiz:
\* the quiz.start send is issued for a record that was never created.
startQuizAddDocSendAnyway(ok) ==
    /\ startTask.pc = "addDoc"
    /\ IF ok
       THEN /\ docs' = [docs EXCEPT ![nextId] = QuizData(startTask.quiz)]
            /\ HostCommit([h EXCEPT !.activeQuizRef = nextId, !.quizStatus = "active"],
                          {nextId})
            /\ pt' = NotifyParticipants(pt, {nextId})
       ELSE /\ HostCommit([h EXCEPT !.activeQuizRef = nextId, !.quizStatus = "active"], {})
            /\ UNCHANGED <<docs, pt>>
    /\ nextId' = nextId + 1
    /\ startTask' = [startTask EXCEPT !.pc = "send", !.id = nextId]
    /\ emitted' = NoEvent
    /\ UNCHANGED <<inbox, connected, hTasks, pTasks, writesIssued>>
    /\ UNCHANGED wbVars
    /\ UNCHANGED lbVars
    /\ UNCHANGED batchVars

startQuizAddDoc(ok) ==
    /\ startTask.pc = "addDoc"
    /\ IF ok
       THEN /\ docs' = [docs EXCEPT ![nextId] = QuizData(startTask.quiz)]
            /\ nextId' = nextId + 1
            /\ startTask' = [startTask EXCEPT !.pc = "send", !.id = nextId]
            /\ HostCommit([h EXCEPT !.activeQuizRef = nextId, !.quizStatus = "active"],
                          {nextId})
            /\ pt' = NotifyParticipants(pt, {nextId})
       ELSE /\ \E okDelete \in BOOLEAN : startQuizCatch(okDelete)
            /\ UNCHANGED nextId
    /\ emitted' = NoEvent
    /\ UNCHANGED <<inbox, connected, hTasks, pTasks, writesIssued>>
    /\ UNCHANGED wbVars
    /\ UNCHANGED lbVars
    /\ UNCHANGED batchVars

startQuizSend(ok) ==
    /\ startTask.pc = "send"
    /\ IF ok
       THEN /\ Broadcast(StartEvent(startTask.id, startTask.quiz.title,
                                    Len(startTask.quiz.questions), startTask.totalTime))
            /\ startTask' = NoStart
            /\ HostCommit([h EXCEPT !.isStarting = FALSE], {})
            /\ UNCHANGED <<docs, pt>>
       ELSE /\ \E okDelete \in BOOLEAN : startQuizCatch(okDelete)
            /\ emitted' = NoEvent
            /\ UNCHANGED inbox
    /\ UNCHANGED <<nextId, connected, hTasks, pTasks, writesIssued>>
    /\ UNCHANGED wbVars
    /\ UNCHANGED lbVars
    /\ UNCHANGED batchVars

\* ----------------------------------------------------------- host: resetQuiz
ResetLocal(hs) ==
    [hs EXCEPT !.quizStatus = "idle", !.activeQuizRef = NoRef, !.results = EmptyMap,
               !.quiz = EmptyQuiz]

\* Leaderboard's Close button: onClose calls resetQuiz when quizStatus is 'ended'.
resetQuiz ==
    /\ h.quizStatus = "ended"
    /\ Cardinality(hTasks) < MaxTasks
    /\ IF h.activeQuizRef # NoRef
       THEN /\ hTasks' = hTasks \cup {[op |-> "resetQuiz", pc |-> "deleteDoc",
                                       ref |-> h.activeQuizRef, finalResults |-> EmptyMap]}
            /\ UNCHANGED <<h, listeners, hDirty>>
       ELSE /\ HostCommit(ResetLocal(h), {})
            /\ UNCHANGED hTasks
    /\ emitted' = NoEvent
    /\ UNCHANGED <<docs, nextId, inbox, connected, startTask, pt, pTasks, writesIssued>>
    /\ UNCHANGED wbVars
    /\ UNCHANGED lbVars
    /\ UNCHANGED batchVars

resetQuizDeleteDoc(t, ok) ==
    /\ t \in hTasks /\ t.op = "resetQuiz"
    /\ hTasks' = hTasks \ {t}
    /\ docs' = IF ok THEN [docs EXCEPT ![t.ref] = NoDoc] ELSE docs
    /\ HostCommit(ResetLocal(h), IF ok THEN {t.ref} ELSE {})
    /\ pt' = NotifyParticipants(pt, IF ok THEN {t.ref} ELSE {})
    /\ emitted' = NoEvent
    /\ UNCHANGED <<nextId, inbox, connected, startTask, pTasks, writesIssued>>
    /\ UNCHANGED wbVars
    /\ UNCHANGED lbVars
    /\ UNCHANGED batchVars

\* --------------------------------------------------- host: snapshot, countdown
\* The onSnapshot callback as it would be without the completion check.
HostSnapshotNoAutoEnd(i) ==
    /\ listeners[i] > 0 /\ hDirty[i]
    /\ Cardinality(hTasks) < MaxTasks
    /\ LET data == docs[i]
       IN  IF data.exists
           THEN HostRender([h EXCEPT
                       !.quiz = [title |-> data.title, questions |-> data.questions,
                                 results |-> data.results],
                       !.results = data.results,
                       !.quizStatus = IF data.isActive THEN "active" ELSE "ended"], {}, {i})
           ELSE HostRender(h, {}, {i})
    /\ UNCHANGED hTasks
    /\ emitted' = NoEvent
    /\ UNCHANGED <<docs, nextId, inbox, connected, startTask, pt, pTasks, writesIssued>>
    /\ UNCHANGED wbVars
    /\ UNCHANGED lbVars
    /\ UNCHANGED batchVars

\* The onSnapshot callback of a listener on record i.
HostSnapshot(i) ==
    /\ listeners[i] > 0 /\ hDirty[i]
    /\ Cardinality(hTasks) < MaxTasks
    /\ LET data == docs[i]
           autoEnd == data.isActive
                      /\ Cardinality(DOMAIN data.results) >= participantCount - 1
       IN  IF data.exists
           THEN /\ hTasks' = IF autoEnd THEN endQuiz(hTasks, i, data.results) ELSE hTasks
                /\ HostRender([h EXCEPT
                       !.quiz = [title |-> data.title, questions |-> data.questions,
                                 results |-> data.results],
                       !.results = data.results,
                       !.quizStatus = IF data.isActive THEN "active" ELSE "ended"], {}, {i})
           ELSE /\ HostRender(h, {}, {i})
                /\ UNCHANGED hTasks
    /\ emitted' = NoEvent
    /\ UNCHANGED <<docs, nextId, inbox, connected, startTask, pt, pTasks, writesIssued>>
    /\ UNCHANGED wbVars
    /\ UNCHANGED lbVars
    /\ UNCHANGED batchVars

\* One firing of the host's 1 s interval.
HostTick ==
    /\ h.activeQuizRef # NoRef /\ h.timeLeft > 0
    /\ Cardinality(hTasks) < MaxTasks
    /\ IF h.timeLeft <= 1
       THEN /\ hTasks' = endQuiz(hTasks, h.activeQuizRef, h.timerResults)
            /\ HostCommit([h EXCEPT !.timeLeft = 0], {})
       ELSE /\ hTasks' = hTasks
            /\ HostCommit([h EXCEPT !.timeLeft = @ - 1], {})
    /\ emitted' = NoEvent
    /\ UNCHANGED <<docs, nextId, inbox, connected, startTask, pt, pTasks, writesIssued>>
    /\ UNCHANGED wbVars
    /\ UNCHANGED lbVars
    /\ UNCHANGED batchVars

\* ------------------------------------------------------------ participants
Join(p) ==
    /\ p \notin connected
    /\ connected' = connected \cup {p}
    /\ emitted' = NoEvent
    /\ UNCHANGED <<docs, nextId, inbox, h, startTask, hTasks, listeners, hDirty, pt,
                   pTasks, writesIssued>>
    /\ UNCHANGED wbVars
    /\ UNCHANGED lbVars
    /\ UNCHANGED batchVars

\* A participant leaves the call: the call's participant count drops and the
\* participant's MeetingRoom is unmounted. Only a participant with no record
\* update under way is taken to leave.
Leave(p) ==
    /\ p \in connected
    /\ \A t \in pTasks : t.p # p
    /\ connected' = connected \ {p}
    /\ pt' = [pt EXCEPT ![p] = PartInit]
    /\ inbox' = [inbox EXCEPT ![p] = {}]
    /\ emitted' = NoEvent
    /\ UNCHANGED <<docs, nextId, h, startTask, hTasks, listeners, hDirty, pTasks,
                   writesIssued>>
    /\ UNCHANGED wbVars
    /\ UNCHANGED lbVars
    /\ UNCHANGED batchVars

TimerRunning(s) ==
    s.userStarted /\ s.quizStarted /\ s.timeLeft > 0 /\ s.activeQuiz # NoQuiz
    /\ ~s.hasSubmitted

\* A render of QuizParticipant after a state change: the snapshot effect
\* (deps [quizId, onClose, hasSubmitted]) resubscribes, the countdown effect
\* (deps [timeLeft, quizStarted, userStarted, hasSubmitted]) re-creates its
\* interval, whose callback keeps that render's selectedOptions.
ParticipantRender(old, new) ==
    [new EXCEPT
       !.dirty = new.dirty \/ (old.hasSubmitted # new.hasSubmitted),
       !.timerSel =
          IF ~TimerRunning(new) THEN <<>>
          ELSE IF old.timeLeft # new.timeLeft \/ old.quizStarted # new.quizStarted
                  \/ old.userStarted # new.userStarted
                  \/ old.hasSubmitted # new.hasSubmitted
               THEN new.selectedOptions
               ELSE old.timerSel]

\* MeetingRoom's handler as it would act if the QuizParticipant instance
\* survived the re-render: quiz.start would only replace the event and reset
\* hasSubmitted (the quiz.start effect), keeping the rest of the state.
handleCustomEventKeepInstance(s, m) ==
    IF m.type = "quiz.start"
    THEN [s EXCEPT !.showQuiz = TRUE, !.quizEvent = m, !.dirty = TRUE, !.loading = TRUE,
                   !.hasSubmitted = FALSE]
    ELSE IF m.type = "quiz.end"
    THEN PartInit
    ELSE s

\* MeetingRoom.handleCustomEvent on a non-host, and the mount of
\* <QuizParticipant quizEvent=...> under the re-created CallLayout.
handleCustomEvent(s, m) ==
    IF m.type = "quiz.start"
    THEN [PartInit EXCEPT !.showQuiz = TRUE, !.quizEvent = m, !.dirty = TRUE,
                          !.loading = TRUE]
    ELSE IF m.type = "quiz.end"
    THEN PartInit
    ELSE s

RecvEvent(p, m) ==
    /\ m \in inbox[p]
    /\ inbox' = [inbox EXCEPT ![p] = @ \ {m}]
    /\ pt' = [pt EXCEPT ![p] = handleCustomEvent(@, m)]
    /\ emitted' = NoEvent
    /\ UNCHANGED <<docs, nextId, connected, h, startTask, hTasks, listeners, hDirty,
                   pTasks, writesIssued>>
    /\ UNCHANGED wbVars
    /\ UNCHANGED lbVars
    /\ UNCHANGED batchVars

\* loadQuiz as it would be without building the answer slate.
loadQuizNoSlate(s, d, ok) ==
    IF ~ok THEN [s EXCEPT !.loading = FALSE, !.error = "Failed to load quiz. Please try again."]
    ELSE IF ~d.exists
    THEN [s EXCEPT !.loading = FALSE, !.error = "Quiz not found. Please contact the host."]
    ELSE [s EXCEPT !.loading = FALSE,
                   !.activeQuiz = [id |-> s.quizEvent.quizId, questions |-> d.questions],
                   !.timeLeft = d.questions[1].timeLimit]

\* loadQuiz: the getDoc issued on quiz.start resolves (or throws).
loadQuiz(s, d, ok) ==
    IF ~ok THEN [s EXCEPT !.loading = FALSE, !.error = "Failed to load quiz. Please try again."]
    ELSE IF ~d.exists
    THEN [s EXCEPT !.loading = FALSE, !.error = "Quiz not found. Please contact the host."]
    ELSE [s EXCEPT !.loading = FALSE,
                   !.activeQuiz = [id |-> s.quizEvent.quizId, questions |-> d.questions],
                   !.selectedOptions = [i \in 1..Len(d.questions) |-> NULL],
                   !.timeLeft = d.questions[1].timeLimit]

LoadDone(p, ok) ==
    /\ pt[p].loading
    /\ pt' = [pt EXCEPT ![p] =
                 ParticipantRender(@, loadQuiz(@, docs[@.quizEvent.quizId], ok))]
    /\ emitted' = NoEvent
    /\ UNCHANGED <<docs, nextId, inbox, connected, h, startTask, hTasks, listeners,
                   hDirty, pTasks, writesIssued>>
    /\ UNCHANGED wbVars
    /\ UNCHANGED lbVars
    /\ UNCHANGED batchVars

\* The participant's onSnapshot callback.
participantSnapshot(s, d) ==
    IF ~d.exists THEN [s EXCEPT !.dirty = FALSE]
    ELSE [s EXCEPT
            !.dirty = FALSE,
            !.liveResults = d.results,
            !.forceShowLeaderboard = @ \/ s.hasSubmitted,
            !.quizStarted = IF s.hasSubmitted THEN @ ELSE d.isActive,
            !.userStarted = IF ~s.hasSubmitted /\ ~d.isActive THEN FALSE ELSE @]

ParticipantSnapshot(p) ==
    /\ pt[p].showQuiz /\ pt[p].dirty
    /\ pt' = [pt EXCEPT ![p] =
                 ParticipantRender(@, participantSnapshot(@, docs[@.quizEvent.quizId]))]
    /\ emitted' = NoEvent
    /\ UNCHANGED <<docs, nextId, inbox, connected, h, startTask, hTasks, listeners,
                   hDirty, pTasks, writesIssued>>
    /\ UNCHANGED wbVars
    /\ UNCHANGED lbVars
    /\ UNCHANGED batchVars

\* What QuizParticipant renders.
View(s) ==
    IF ~s.showQuiz \/ s.activeQuiz = NoQuiz THEN "none"
    ELSE IF (~s.quizStarted /\ ~s.hasSubmitted) \/ (s.hasSubmitted /\ s.forceShowLeaderboard)
    THEN IF s.hasSubmitted /\ DOMAIN s.liveResults # {} THEN "leaderboard" ELSE "message"
    ELSE IF ~s.userStarted THEN "ready"
    ELSE "question"

startQuizForUser(p) ==
    /\ View(pt[p]) = "ready"
    /\ pt' = [pt EXCEPT ![p] =
                 ParticipantRender(@, [@ EXCEPT !.userStarted = TRUE,
                                        !.timeLeft = pt[p].activeQuiz.questions[1].timeLimit])]
    /\ emitted' = NoEvent
    /\ UNCHANGED <<docs, nextId, inbox, connected, h, startTask, hTasks, listeners,
                   hDirty, pTasks, writesIssued>>
    /\ UNCHANGED wbVars
    /\ UNCHANGED lbVars
    /\ UNCHANGED batchVars

SelectOption(p, o) ==
    /\ View(pt[p]) = "question"
    /\ pt[p].currentQuestion + 1 \in DOMAIN pt[p].selectedOptions
    /\ pt[p].selectedOptions[pt[p].currentQuestion + 1] # o
    /\ pt' = [pt EXCEPT ![p] =
                 ParticipantRender(@, [@ EXCEPT
                     !.selectedOptions[pt[p].currentQuestion + 1] = o])]
    /\ emitted' = NoEvent
    /\ UNCHANGED <<docs, nextId, inbox, connected, h, startTask, hTasks, listeners,
                   hDirty, pTasks, writesIssued>>
    /\ UNCHANGED wbVars
    /\ UNCHANGED lbVars
    /\ UNCHANGED batchVars

\* The answers as they would be without the `?? -1` fallback.
AnswersNoSentinel(quiz, sel, tl) ==
    [i \in 1..Len(quiz.questions) |->
        [selectedOption |-> IF i \in DOMAIN sel THEN sel[i] ELSE NULL,
         timeTaken |-> quiz.questions[i].timeLimit - tl]]

\* The answers and the result entry submitAllAnswers computes from the
\* selectedOptions and timeLeft of its closure.
Answers(quiz, sel, tl) ==
    [i \in 1..Len(quiz.questions) |->
        [selectedOption |-> IF i \in DOMAIN sel /\ sel[i] # NULL THEN sel[i] ELSE NoAnswer,
         timeTaken |-> quiz.questions[i].timeLimit - tl]]

\* The score as it would be if every answered question counted.
RECURSIVE ScoreAnswered(_, _)
ScoreAnswered(quiz, answers) ==
    IF answers = <<>> THEN 0
    ELSE LET n == Len(answers)
         IN  ScoreAnswered(quiz, SubSeq(answers, 1, n - 1))
             + (IF answers[n].selectedOption # NoAnswer THEN 1 ELSE 0)

RECURSIVE Score(_, _)
Score(quiz, answers) ==
    IF answers = <<>> THEN 0
    ELSE LET n == Len(answers)
         IN  Score(quiz, SubSeq(answers, 1, n - 1))
             + (IF answers[n].selectedOption = quiz.questions[n].correctOption
                THEN 1 ELSE 0)

RECURSIVE SumTimeTaken(_)
SumTimeTaken(answers) ==
    IF answers = <<>> THEN 0
    ELSE Head(answers).timeTaken + SumTimeTaken(Tail(answers))

ResultEntry(quiz, sel, tl) ==
    [score |-> Score(quiz, Answers(quiz, sel, tl)),
     answers |-> Answers(quiz, sel, tl),
     totalQuestions |-> Len(quiz.questions),
     timeTaken |-> SumTimeTaken(Answers(quiz, sel, tl))]

\* The head of submitAllAnswers up to the updateDoc it issues.
CanSubmit(s) == s.activeQuiz # NoQuiz /\ ~s.hasSubmitted

\* submitAllAnswers as it would be if it returned without issuing the record
\* update.
submitAllAnswersNoWrite(p, sel, tl) ==
    UNCHANGED <<pTasks, writesIssued>>

submitAllAnswers(p, sel, tl) ==
    /\ writesIssued[p][pt[p].activeQuiz.id] < MaxWrites
    /\ pTasks' = pTasks \cup {[p |-> p, quizId |-> pt[p].activeQuiz.id, pc |-> "updateDoc",
                               entry |-> ResultEntry(pt[p].activeQuiz, sel, tl)]}
    /\ writesIssued' = [writesIssued EXCEPT ![p][pt[p].activeQuiz.id] = @ + 1]

IsLastQuestion(s) == s.currentQuestion = Len(s.activeQuiz.questions) - 1

\* handleNextQuestion on a question that is not the last one.
NextQuestion(s) ==
    [s EXCEPT !.currentQuestion = @ + 1,
              !.timeLeft = s.activeQuiz.questions[s.currentQuestion + 2].timeLimit]

ClickNext(p) ==
    /\ View(pt[p]) = "question"
    /\ ~IsLastQuestion(pt[p])
    /\ pt[p].selectedOptions[pt[p].currentQuestion + 1] # NULL
    /\ pt' = [pt EXCEPT ![p] = ParticipantRender(@, NextQuestion(@))]
    /\ emitted' = NoEvent
    /\ UNCHANGED <<docs, nextId, inbox, connected, h, startTask, hTasks, listeners,
                   hDirty, pTasks, writesIssued>>
    /\ UNCHANGED wbVars
    /\ UNCHANGED lbVars
    /\ UNCHANGED batchVars

ClickSubmit(p) ==
    /\ View(pt[p]) = "question"
    /\ IsLastQuestion(pt[p])
    /\ pt[p].selectedOptions[pt[p].currentQuestion + 1] # NULL
    /\ CanSubmit(pt[p])
    /\ submitAllAnswers(p, pt[p].selectedOptions, pt[p].timeLeft)
    /\ emitted' = NoEvent
    /\ UNCHANGED <<docs, nextId, inbox, connected, h, startTask, hTasks, listeners,
                   hDirty, pt>>
    /\ UNCHANGED wbVars
    /\ UNCHANGED lbVars
    /\ UNCHANGED batchVars

\* One firing of the participant's 1 s interval.
ParticipantTick(p) ==
    /\ TimerRunning(pt[p])
    /\ IF pt[p].timeLeft > 1
       THEN /\ pt' = [pt EXCEPT ![p] = ParticipantRender(@, [@ EXCEPT !.timeLeft = @ - 1])]
            /\ UNCHANGED <<pTasks, writesIssued>>
       ELSE IF ~IsLastQuestion(pt[p])
       THEN /\ pt' = [pt EXCEPT ![p] = ParticipantRender(@, NextQuestion(@))]
            /\ UNCHANGED <<pTasks, writesIssued>>
       ELSE /\ submitAllAnswers(p, pt[p].timerSel, pt[p].timeLeft)
            /\ pt' = [pt EXCEPT ![p] = ParticipantRender(@, [@ EXCEPT !.timeLeft = 0])]
    /\ emitted' = NoEvent
    /\ UNCHANGED <<docs, nextId, inbox, connected, h, startTask, hTasks, listeners, hDirty>>
    /\ UNCHANGED wbVars
    /\ UNCHANGED lbVars
    /\ UNCHANGED batchVars

CompletedEvent(t) ==
    [type |-> "quiz.completed", quizId |-> t.quizId, title |-> <<>>,
     totalQuestions |-> t.entry.totalQuestions, totalTime |-> t.entry.score,
     results |-> EmptyMap]

\* The merge `results.<userId>` of a participant's updateDoc.
MergeResult(d, t) == [d EXCEPT !.results = Put(@, t.p, t.entry)]

SameInstance(s, t) == s.showQuiz /\ s.quizEvent.quizId = t.quizId

\* The write of submitAllAnswers as it would be if it replaced the whole result
\* mapping instead of merging the field `results.<userId>`.
WriteDoneReplaceResults(t, ok) ==
    /\ t \in pTasks /\ t.pc = "updateDoc"
    /\ IF ok /\ docs[t.quizId].exists
       THEN /\ docs' = [docs EXCEPT ![t.quizId].results = Put(EmptyMap, t.p, t.entry)]
            /\ pTasks' = (pTasks \ {t}) \cup {[t EXCEPT !.pc = "send"]}
            /\ hDirty' = [i \in QuizIds |-> listeners[i] > 0 /\ (hDirty[i] \/ i = t.quizId)]
            /\ pt' = [q \in Participants |->
                        LET s == NotifyParticipants(pt, {t.quizId})[q]
                        IN  IF q = t.p /\ SameInstance(s, t)
                            THEN ParticipantRender(s, [s EXCEPT !.hasSubmitted = TRUE,
                                                          !.forceShowLeaderboard = TRUE])
                            ELSE s]
       ELSE /\ pTasks' = pTasks \ {t}
            /\ pt' = [pt EXCEPT ![t.p] =
                        IF SameInstance(@, t)
                        THEN [@ EXCEPT !.error = "Failed to submit answers."] ELSE @]
            /\ UNCHANGED <<docs, hDirty>>
    /\ emitted' = NoEvent
    /\ UNCHANGED <<nextId, inbox, connected, h, startTask, hTasks, listeners, writesIssued>>
    /\ UNCHANGED wbVars
    /\ UNCHANGED lbVars
    /\ UNCHANGED batchVars

\* The updateDoc of submitAllAnswers resolves or rejects; when it resolves the
\* participant is marked as submitted and the quiz.completed send is issued.
WriteDone(t, ok) ==
    /\ t \in pTasks /\ t.pc = "updateDoc"
    /\ IF ok /\ docs[t.quizId].exists
       THEN /\ docs' = [docs EXCEPT ![t.quizId] = MergeResult(@, t)]
            /\ pTasks' = (pTasks \ {t}) \cup {[t EXCEPT !.pc = "send"]}
            /\ hDirty' = [i \in QuizIds |-> listeners[i] > 0 /\ (hDirty[i] \/ i = t.quizId)]
            /\ pt' = [q \in Participants |->
                        LET s == NotifyParticipants(pt, {t.quizId})[q]
                        IN  IF q = t.p /\ SameInstance(s, t)
                            THEN ParticipantRender(s, [s EXCEPT !.hasSubmitted = TRUE,
                                                          !.forceShowLeaderboard = TRUE])
                            ELSE s]
       ELSE /\ pTasks' = pTasks \ {t}
            /\ pt' = [pt EXCEPT ![t.p] =
                        IF SameInstance(@, t)
                        THEN [@ EXCEPT !.error = "Failed to submit answers."] ELSE @]
            /\ UNCHANGED <<docs, hDirty>>
    /\ emitted' = NoEvent
    /\ UNCHANGED <<nextId, inbox, connected, h, startTask, hTasks, listeners, writesIssued>>
    /\ UNCHANGED wbVars
    /\ UNCHANGED lbVars
    /\ UNCHANGED batchVars

\* The quiz.completed send of submitAllAnswers as it would be without the inner
\* try/catch: a rejected send reaches the outer catch.
sendCompletedUncaught(t, ok) ==
    /\ t \in pTasks /\ t.pc = "send"
    /\ pTasks' = pTasks \ {t}
    /\ emitted' = IF ok THEN CompletedEvent(t) ELSE NoEvent
    /\ pt' = [pt EXCEPT ![t.p] =
                IF ~ok /\ SameInstance(@, t)
                THEN [@ EXCEPT !.error = "Failed to submit answers."] ELSE @]
    /\ UNCHANGED <<docs, nextId, inbox, connected, h, startTask, hTasks, listeners, hDirty,
                   writesIssued>>
    /\ UNCHANGED wbVars
    /\ UNCHANGED lbVars
    /\ UNCHANGED batchVars

\* The quiz.completed send of submitAllAnswers resolves or rejects; a rejection
\* is caught and logged with console.warn (`warned`). (No view handles
\* quiz.completed.)
sendCompleted(t, ok) ==
    /\ t \in pTasks /\ t.pc = "send"
    /\ pTasks' = pTasks \ {t}
    /\ emitted' = IF ok THEN CompletedEvent(t) ELSE NoEvent
    /\ pt' = [pt EXCEPT ![t.p] =
                IF ~ok /\ SameInstance(@, t) THEN [@ EXCEPT !.warned = TRUE] ELSE @]
    /\ UNCHANGED <<docs, nextId, inbox, connected, h, startTask, hTasks, listeners, hDirty,
                   writesIssued>>
    /\ UNCHANGED wbVars
    /\ UNCHANGED lbVars
    /\ UNCHANGED batchVars

\* ============================================================== whiteboard
Host == "host"
Peers == {Host} \cup Players
StrokeIds == 1..MaxStrokes

EmptyBoard == [strokes |-> <<>>, version |-> 0]

StrokeEvent(s) == [type |-> "stroke", stroke |-> s]
ClearEvent == [type |-> "clear"]
RequestStateEvent == [type |-> "request_state"]
FullStateEvent(st) == [type |-> "full_state", state |-> st]

\* The channel took a whiteboard event: it reaches any subset of the mounted
\* views that still have room for it (the sender's own view included), and is
\* lost for the others. `inb` are the inboxes the event is added to.
wbBroadcast(m, inb) ==
    \E R \in SUBSET {r \in mounted : Cardinality(inb[r]) < MaxInbox \/ m \in inb[r]} :
       wbInbox' = [r \in Peers |-> IF r \in R THEN inb[r] \cup {m} ELSE inb[r]]

\* saveState: the view's state goes to the browser's localStorage.
saveState(r) == storage' = [storage EXCEPT ![r] = <<stateRef'[r]>>]

\* drawPoint on the host: the point goes into the buffer and the debounce timer
\* is armed.
drawPoint(r) == pointsBuffer' = [pointsBuffer EXCEPT ![r] = @ + 1]

\* handleMouseDown with the role test removed.
handleMouseDownAnyRole(r) ==
    /\ r \in mounted
    /\ pointerEvents[r] < MaxPointerEvents
    /\ pointerEvents' = [pointerEvents EXCEPT ![r] = @ + 1]
    /\ isDrawing' = [isDrawing EXCEPT ![r] = TRUE]
    /\ drawPoint(r)
    /\ UNCHANGED <<stateRef, mounted, initialized, storage, wbInbox, strokeSends,
                   stateRequests, drawn, cleared>>
    /\ UNCHANGED quizVars
    /\ UNCHANGED lbVars
    /\ UNCHANGED batchVars

\* A pointer-down on the canvas of r, while the host has drawn fewer than
\* maxStrokes batches.
handleMouseDownUpTo(r, maxStrokes) ==
    /\ r \in mounted
    /\ pointerEvents[r] < MaxPointerEvents
    /\ pointerEvents' = [pointerEvents EXCEPT ![r] = @ + 1]
    /\ IF r # Host
       THEN UNCHANGED <<pointsBuffer, isDrawing>>
       ELSE /\ drawn < maxStrokes
            /\ isDrawing' = [isDrawing EXCEPT ![r] = TRUE]
            /\ drawPoint(r)
    /\ UNCHANGED <<stateRef, mounted, initialized, storage, wbInbox, strokeSends,
                   stateRequests, drawn, cleared>>
    /\ UNCHANGED quizVars
    /\ UNCHANGED lbVars
    /\ UNCHANGED batchVars

\* A pointer-down on the canvas of r.
handleMouseDown(r) == handleMouseDownUpTo(r, MaxStrokes)

\* A pointer-move on the canvas of r.
handleMouseMove(r) ==
    /\ r \in mounted
    /\ pointerEvents[r] < MaxPointerEvents
    /\ pointerEvents' = [pointerEvents EXCEPT ![r] = @ + 1]
    /\ IF r # Host \/ ~isDrawing[r]
       THEN UNCHANGED pointsBuffer
       ELSE /\ drawn < MaxStrokes
            /\ drawPoint(r)
    /\ UNCHANGED <<stateRef, mounted, initialized, storage, wbInbox, strokeSends,
                   stateRequests, drawn, cleared, isDrawing>>
    /\ UNCHANGED quizVars
    /\ UNCHANGED lbVars
    /\ UNCHANGED batchVars

\* The body of the debounced function: the buffered points are taken out of
\* the buffer and handed, as one batch, to sendStrokeWithRetry(stroke, 0).
SendPoints ==
    /\ pointsBuffer' = [pointsBuffer EXCEPT ![Host] = 0]
    /\ drawn' = drawn + 1
    /\ strokeSends' = strokeSends \cup {[stroke |-> drawn + 1, attempts |-> 0]}

\* The debounce timer armed by drawPoint fires on the host. (A timer that fires
\* on an empty buffer returns at once.)
debouncedSendPoints ==
    /\ pointsBuffer[Host] > 0
    /\ SendPoints
    /\ UNCHANGED <<stateRef, mounted, initialized, storage, wbInbox, stateRequests, cleared,
                   isDrawing, pointerEvents>>
    /\ UNCHANGED quizVars
    /\ UNCHANGED lbVars
    /\ UNCHANGED batchVars

\* A pointer-up (or pointer-leave) on the canvas of r. On the host flush() runs
\* the debounced function at once when the instance of this render is the one
\* drawPoint armed (`flushed`), and does nothing otherwise.
handleMouseUp(r, flushed) ==
    /\ r \in mounted
    /\ IF r # Host
       THEN UNCHANGED wbVars
       ELSE /\ isDrawing[Host] \/ pointsBuffer[Host] > 0
            /\ isDrawing' = [isDrawing EXCEPT ![Host] = FALSE]
            /\ IF flushed /\ pointsBuffer[Host] > 0
               THEN SendPoints
               ELSE UNCHANGED <<pointsBuffer, drawn, strokeSends>>
            /\ UNCHANGED <<stateRef, mounted, initialized, storage, wbInbox, stateRequests,
                           cleared, pointerEvents>>
    /\ UNCHANGED quizVars
    /\ UNCHANGED lbVars
    /\ UNCHANGED batchVars

\* The state with a stroke appended, as sendStrokeWithRetry and the 'stroke'
\* case of the event handler build it.
AppendedBoard(cur, s) == [strokes |-> Append(cur.strokes, s), version |-> cur.version + 1]

\* The cleared state with the version reset.
ClearedBoardFromZero(cur) == [strokes |-> <<>>, version |-> 0]

\* The cleared state, as clearCanvas and the 'clear' case build it.
ClearedBoard(cur) == [strokes |-> <<>>, version |-> cur.version + 1]

\* sendStrokeWithRetry as it would be without the test on MAX_RETRY_ATTEMPTS.
sendStrokeWithRetryNoBound(t, ok) ==
    /\ t \in strokeSends
    /\ IF ok
       THEN /\ strokeSends' = strokeSends \ {t}
            /\ wbBroadcast(StrokeEvent(t.stroke), wbInbox)
            /\ stateRef' = [stateRef EXCEPT ![Host] = AppendedBoard(@, t.stroke)]
            /\ saveState(Host)
       ELSE /\ strokeSends' = (strokeSends \ {t}) \cup {[t EXCEPT !.attempts = @ + 1]}
            /\ UNCHANGED <<stateRef, storage, wbInbox>>
    /\ UNCHANGED <<mounted, initialized, stateRequests, drawn, cleared, penVars>>
    /\ UNCHANGED quizVars
    /\ UNCHANGED lbVars
    /\ UNCHANGED batchVars

\* One invocation of sendStrokeWithRetry(stroke, attempts): the send resolves
\* (ok) or rejects.
sendStrokeWithRetry(t, ok) ==
    /\ t \in strokeSends
    /\ IF t.attempts >= MAX_RETRY_ATTEMPTS
       THEN /\ ~ok
            /\ strokeSends' = strokeSends \ {t}
            /\ UNCHANGED <<stateRef, storage, wbInbox>>
       ELSE IF ok
       THEN /\ strokeSends' = strokeSends \ {t}
            /\ wbBroadcast(StrokeEvent(t.stroke), wbInbox)
            /\ stateRef' = [stateRef EXCEPT ![Host] = AppendedBoard(@, t.stroke)]
            /\ saveState(Host)
       ELSE /\ strokeSends' = (strokeSends \ {t}) \cup {[t EXCEPT !.attempts = @ + 1]}
            /\ UNCHANGED <<stateRef, storage, wbInbox>>
    /\ UNCHANGED <<mounted, initialized, stateRequests, drawn, cleared, penVars>>
    /\ UNCHANGED quizVars
    /\ UNCHANGED lbVars
    /\ UNCHANGED batchVars

\* clearCanvas on the view of r; `ok` tells whether the send of the clear event
\* resolves.
clearCanvas(r, ok) ==
    /\ r \in mounted
    /\ IF r # Host
       THEN UNCHANGED wbVars
       ELSE /\ cleared < MaxClears
            /\ cleared' = cleared + 1
            /\ pointsBuffer' = [pointsBuffer EXCEPT ![Host] = 0]
            /\ stateRef' = [stateRef EXCEPT ![Host] = ClearedBoard(@)]
            /\ saveState(Host)
            /\ IF ok THEN wbBroadcast(ClearEvent, wbInbox) ELSE UNCHANGED wbInbox
            /\ UNCHANGED <<mounted, initialized, strokeSends, stateRequests, drawn,
                           isDrawing, pointerEvents>>
    /\ UNCHANGED quizVars
    /\ UNCHANGED lbVars
    /\ UNCHANGED batchVars

\* sendState as it would be if it sent an empty board instead of the host's
\* current state.
sendStateEmpty(inb) == wbBroadcast(FullStateEvent(EmptyBoard), inb)

\* sendState on the host: the payload is stateRef.current at the time of the
\* call; a rejected send is logged and nothing else happens.
sendState(inb) == wbBroadcast(FullStateEvent(stateRef[Host]), inb)

\* One firing of the host's STATE_SYNC_INTERVAL timer whose send resolves and
\* reaches the participants in R.
SyncTick(R) ==
    /\ R \subseteq mounted \ {Host}
    /\ \A r \in R : Cardinality(wbInbox[r]) < MaxInbox
                    \/ FullStateEvent(stateRef[Host]) \in wbInbox[r]
    /\ wbInbox' = [r \in Peers |-> IF r \in R
                                   THEN wbInbox[r] \cup {FullStateEvent(stateRef[Host])}
                                   ELSE wbInbox[r]]
    /\ UNCHANGED <<stateRef, mounted, initialized, storage, strokeSends, stateRequests,
                   drawn, cleared, penVars>>
    /\ UNCHANGED quizVars
    /\ UNCHANGED lbVars
    /\ UNCHANGED batchVars

\* A participant opens the whiteboard: the saved state is loaded and the
\* current state is requested.
WbOpen(p) ==
    /\ p \in Players \ mounted
    /\ mounted' = mounted \cup {p}
    /\ stateRef' = [stateRef EXCEPT ![p] = IF storage[p] # <<>> THEN storage[p][1]
                                          ELSE EmptyBoard]
    /\ initialized' = [initialized EXCEPT ![p] = FALSE]
    /\ stateRequests' = stateRequests \cup {[p |-> p, attempts |-> 0]}
    /\ UNCHANGED <<storage, wbInbox, strokeSends, drawn, cleared, penVars>>
    /\ UNCHANGED quizVars
    /\ UNCHANGED lbVars
    /\ UNCHANGED batchVars

\* A participant closes the whiteboard (onClose, or any re-creation of
\* CallLayout): the view and its refs are gone, its channel listener is
\* removed, and localStorage keeps what saveState wrote. A retry of
\* requestStateWithRetry already scheduled is not cancelled.
WbClose(p) ==
    /\ p \in Players \cap mounted
    /\ mounted' = mounted \ {p}
    /\ stateRef' = [stateRef EXCEPT ![p] = EmptyBoard]
    /\ initialized' = [initialized EXCEPT ![p] = FALSE]
    /\ wbInbox' = [wbInbox EXCEPT ![p] = {}]
    /\ UNCHANGED <<storage, strokeSends, stateRequests, drawn, cleared, penVars>>
    /\ UNCHANGED quizVars
    /\ UNCHANGED lbVars
    /\ UNCHANGED batchVars

\* The host closes the whiteboard: its view is unmounted, its channel listener
\* and its sync interval are removed. Neither the debounce timer nor a retry
\* of sendStrokeWithRetry already scheduled is cancelled; their closures keep
\* the ref object of the unmounted view.
WbCloseHost ==
    /\ Host \in mounted
    /\ mounted' = mounted \ {Host}
    /\ wbInbox' = [wbInbox EXCEPT ![Host] = {}]
    /\ isDrawing' = [isDrawing EXCEPT ![Host] = FALSE]
    /\ UNCHANGED <<stateRef, initialized, storage, strokeSends, stateRequests, drawn, cleared,
                   pointsBuffer, pointerEvents>>
    /\ UNCHANGED quizVars
    /\ UNCHANGED lbVars
    /\ UNCHANGED batchVars

\* One invocation of requestStateWithRetry(attempts).
requestStateWithRetry(t, ok) ==
    /\ t \in stateRequests
    /\ IF t.attempts >= MAX_RETRY_ATTEMPTS
       THEN /\ ~ok
            /\ stateRequests' = stateRequests \ {t}
            /\ UNCHANGED wbInbox
       ELSE IF ok
       THEN /\ stateRequests' = stateRequests \ {t}
            /\ wbBroadcast(RequestStateEvent, wbInbox)
       ELSE /\ stateRequests' = (stateRequests \ {t}) \cup {[t EXCEPT !.attempts = @ + 1]}
            /\ UNCHANGED wbInbox
    /\ UNCHANGED <<stateRef, mounted, initialized, storage, strokeSends, drawn, cleared, penVars>>
    /\ UNCHANGED quizVars
    /\ UNCHANGED lbVars
    /\ UNCHANGED batchVars

\* The 'full_state' case with the received strokes added to the replica's own.
onFullStateMerge(cur, m) ==
    [strokes |-> cur.strokes \o m.state.strokes, version |-> m.state.version]

\* The 'full_state' case taking the received state only when it is newer.
onFullStateIfNewer(cur, m) ==
    IF m.state.version > cur.version THEN m.state ELSE cur

\* The 'full_state' case of the event handler on a participant.
onFullState(cur, m) == m.state

\* Whiteboard's handler of the channel's custom events, on the view of r.
whiteboardEvent(r, m) ==
    /\ r \in mounted /\ m \in wbInbox[r]
    /\ LET inb == [wbInbox EXCEPT ![r] = @ \ {m}]
       IN  IF m.type = "stroke"
           THEN /\ stateRef' = [stateRef EXCEPT ![r] = AppendedBoard(@, m.stroke)]
                /\ saveState(r)
                /\ wbInbox' = inb
                /\ UNCHANGED initialized
           ELSE IF m.type = "clear"
           THEN /\ stateRef' = [stateRef EXCEPT ![r] = ClearedBoard(@)]
                /\ saveState(r)
                /\ wbInbox' = inb
                /\ UNCHANGED initialized
           ELSE IF m.type = "request_state"
           THEN /\ IF r = Host THEN sendState(inb) ELSE wbInbox' = inb
                /\ UNCHANGED <<stateRef, storage, initialized>>
           ELSE IF r # Host
           THEN /\ stateRef' = [stateRef EXCEPT ![r] = onFullState(@, m)]
                /\ saveState(r)
                /\ initialized' = [initialized EXCEPT ![r] = TRUE]
                /\ wbInbox' = inb
           ELSE /\ wbInbox' = inb
                /\ UNCHANGED <<stateRef, storage, initialized>>
    /\ UNCHANGED <<mounted, strokeSends, stateRequests, drawn, cleared, penVars>>
    /\ UNCHANGED quizVars
    /\ UNCHANGED lbVars
    /\ UNCHANGED batchVars

\* ============================================================= leaderboard
UserIds == {"A", "B", "C"}
Scores == {3, 5}
Times == {15, 20, 50}

\* Object.entries(results).map(([userId, result]) => ({ userId, ...result })):
\* the entries of a result mapping in the order Object.entries yields them.
ResultEntries ==
    {e \in UNION {[1..n -> [userId : UserIds, score : Scores, timeTaken : Times]] :
                     n \in 0..MaxEntries} :
        \A i, j \in DOMAIN e : i # j => e[i].userId # e[j].userId}

\* The comparator of a list ordered by score only.
CompareScore(a, b) == b.score - a.score

\* The comparator of the sort: negative when a goes before b.
Compare(a, b) ==
    IF b.score - a.score # 0 THEN b.score - a.score
    ELSE (IF a.timeTaken = NULL THEN 0 ELSE a.timeTaken)
         - (IF b.timeTaken = NULL THEN 0 ELSE b.timeTaken)

\* Array.prototype.sort is stable: an entry goes behind every entry already
\* placed that the comparator does not put after it.
RECURSIVE InsertSorted(_, _)
InsertSorted(sorted, e) ==
    IF sorted = <<>> THEN <<e>>
    ELSE IF Compare(Head(sorted), e) <= 0
         THEN <<Head(sorted)>> \o InsertSorted(Tail(sorted), e)
         ELSE <<e>> \o sorted

RECURSIVE SortResults(_)
SortResults(entries) ==
    IF entries = <<>> THEN <<>>
    ELSE InsertSorted(SortResults(SubSeq(entries, 1, Len(entries) - 1)),
                      entries[Len(entries)])

\* Leaderboard is rendered with the prop `results`: the effect copies a
\* non-empty mapping into localResults and the list is sorted again.
LeaderboardRender(results) ==
    /\ localResults' = IF results # <<>> THEN results ELSE localResults
    /\ sortedResults' = SortResults(localResults')
    /\ UNCHANGED quizVars
    /\ UNCHANGED wbVars
    /\ UNCHANGED batchVars

\* ================================================================ batching
\* points.slice(i, i + MAX_POINTS_PER_BATCH) with more than the cap in a batch.
SliceOverlapping(points, i) ==
    SubSeq(points, i + 1,
           IF i + MAX_POINTS_PER_BATCH + 1 < Len(points)
           THEN i + MAX_POINTS_PER_BATCH + 1 ELSE Len(points))

\* points.slice(i, i + MAX_POINTS_PER_BATCH), i counted from 0.
Slice(points, i) ==
    SubSeq(points, i + 1,
           IF i + MAX_POINTS_PER_BATCH < Len(points)
           THEN i + MAX_POINTS_PER_BATCH ELSE Len(points))

\* The loop `for (i = 0; i < points.length; i += MAX_POINTS_PER_BATCH)`: the
\* batches handed to sendStrokeWithRetry from index i on, in order.
RECURSIVE SplitPoints(_, _)
SplitPoints(points, i) ==
    IF i < Len(points)
    THEN <<Slice(points, i)>> \o SplitPoints(points, i + MAX_POINTS_PER_BATCH)
    ELSE <<>>

\* drawPoint on the host pushes the point into pointsBuffer.current; a point
\* is named by its place in the buffer.
PushPoint ==
    /\ Len(batchBuffer) < MaxPoints
    /\ batchBuffer' = Append(batchBuffer, Len(batchBuffer) + 1)
    /\ UNCHANGED batchStrokes
    /\ UNCHANGED quizVars
    /\ UNCHANGED wbVars
    /\ UNCHANGED lbVars

\* One run of the debounced function (the timer fires, or flush() runs it): on
\* an empty buffer it returns at once; otherwise the buffer is copied and
\* emptied and every batch of the copy is handed to sendStrokeWithRetry.
FlushPoints ==
    /\ IF Len(batchBuffer) = 0
       THEN UNCHANGED batchVars
       ELSE /\ batchBuffer' = <<>>
            /\ batchStrokes' = SplitPoints(batchBuffer, 0)
    /\ UNCHANGED quizVars
    /\ UNCHANGED wbVars
    /\ UNCHANGED lbVars

\* ------------------------------------------------------------------- specs
Question(c) ==
    [question |-> <<"q">>, options |-> FilledOptions, correctOption |-> c,
     timeLimit |-> MinTimeLimit]

\* Quizzes the host has composed through SetTitle and addQuestion.
QuizOne == [title |-> <<"a">>, questions |-> <<Question(0)>>, results |-> EmptyMap]
QuizTwo ==
    [title |-> <<"a">>, questions |-> <<Question(1), Question(0)>>, results |-> EmptyMap]

InitWith(quiz, inCall) ==
    /\ docs = [i \in QuizIds |-> NoDoc]
    /\ nextId = 1
    /\ emitted = NoEvent
    /\ inbox = [p \in Participants |-> {}]
    /\ connected = inCall
    /\ h = [HostInit EXCEPT !.quiz = quiz]
    /\ startTask = NoStart
    /\ hTasks = {}
    /\ listeners = [i \in QuizIds |-> 0]
    /\ hDirty = [i \in QuizIds |-> FALSE]
    /\ pt = [p \in Participants |-> PartInit]
    /\ pTasks = {}
    /\ writesIssued = [p \in Participants |-> [i \in QuizIds |-> 0]]
    /\ stateRef = [r \in Peers |-> EmptyBoard]
    /\ mounted = {Host}
    /\ initialized = [r \in Peers |-> FALSE]
    /\ storage = [r \in Peers |-> <<>>]
    /\ wbInbox = [r \in Peers |-> {}]
    /\ strokeSends = {}
    /\ stateRequests = {}
    /\ drawn = 0
    /\ cleared = 0
    /\ pointsBuffer = [r \in Peers |-> 0]
    /\ isDrawing = [r \in Peers |-> FALSE]
    /\ pointerEvents = [r \in Peers |-> 0]
    /\ localResults = <<>>
    /\ sortedResults = <<>>
    /\ batchBuffer = <<>>
    /\ batchStrokes = <<>>

\* The host composing and starting a quiz.
ComposeInit == InitWith(EmptyQuiz, {})

ComposeNext ==
    \/ \E t \in Titles : SetTitle(t)
    \/ \E q \in QuestionInputs : addQuestion(q)
    \/ \E i \in 1..MaxQuestions : removeQuestion(i)
    \/ DismissError
    \/ startQuiz
    \/ \E ok \in BOOLEAN : startQuizAddDoc(ok)
    \/ \E ok \in BOOLEAN : startQuizSend(ok)

ComposeSpec == ComposeInit /\ [][ComposeNext]_vars

\* The lifecycle of a one-question quiz from the composed quiz on.
Init == InitWith(QuizOne, {})

Next ==
    \/ startQuiz
    \/ \E ok \in BOOLEAN : startQuizAddDoc(ok)
    \/ \E ok \in BOOLEAN : startQuizSend(ok)
    \/ ClickEndQuiz
    \/ \E t \in hTasks, ok \in BOOLEAN : endQuizUpdateDoc(t, ok)
    \/ \E t \in hTasks, ok \in BOOLEAN : endQuizSend(t, ok)
    \/ resetQuiz
    \/ \E t \in hTasks, ok \in BOOLEAN : resetQuizDeleteDoc(t, ok)
    \/ \E i \in QuizIds : HostSnapshot(i)
    \/ HostTick
    \/ \E p \in Players : Join(p)
    \/ \E p \in Players : \E m \in inbox[p] : RecvEvent(p, m)
    \/ \E p \in Players, ok \in BOOLEAN : LoadDone(p, ok)
    \/ \E p \in Players : ParticipantSnapshot(p)
    \/ \E p \in Players : startQuizForUser(p)
    \/ \E p \in Players, o \in OptionChoices : SelectOption(p, o)
    \/ \E p \in Players : ClickSubmit(p)
    \/ \E t \in pTasks, ok \in BOOLEAN : WriteDone(t, ok)

Spec == Init /\ [][Next]_vars
\* A two-question quiz paced by the participants' timers; the participants are
\* in the call when the host starts it.
PacingInit == InitWith(QuizTwo, Players)

PacingNext ==
    \/ startQuiz
    \/ \E ok \in BOOLEAN : startQuizAddDoc(ok)
    \/ \E ok \in BOOLEAN : startQuizSend(ok)
    \/ ClickEndQuiz
    \/ \E t \in hTasks, ok \in BOOLEAN : endQuizUpdateDoc(t, ok)
    \/ \E t \in hTasks, ok \in BOOLEAN : endQuizSend(t, ok)
    \/ \E p \in Players : \E m \in inbox[p] : RecvEvent(p, m)
    \/ \E p \in Players, ok \in BOOLEAN : LoadDone(p, ok)
    \/ \E p \in Players : ParticipantSnapshot(p)
    \/ \E p \in Players : startQuizForUser(p)
    \/ \E p \in Players, o \in OptionChoices : SelectOption(p, o)
    \/ \E p \in Players : ClickNext(p)
    \/ \E p \in Players : ClickSubmit(p)
    \/ \E p \in Players : ParticipantTick(p)
    \/ \E t \in pTasks, ok \in BOOLEAN : WriteDone(t, ok)

PacingSpec == PacingInit /\ [][PacingNext]_vars

\* Submission: the result write of submitAllAnswers followed by its
\* quiz.completed send. No handler of the program consumes quiz.completed, so
\* the send step changes nothing the other specifications observe; it is
\* explored here, with both outcomes of the write and of the send.
SubmitInit == InitWith(QuizOne, Players)

SubmitNext ==
    \/ startQuiz
    \/ \E ok \in BOOLEAN : startQuizAddDoc(ok)
    \/ \E ok \in BOOLEAN : startQuizSend(ok)
    \/ \E p \in Players : \E m \in inbox[p] : RecvEvent(p, m)
    \/ \E p \in Players, ok \in BOOLEAN : LoadDone(p, ok)
    \/ \E p \in Players : ParticipantSnapshot(p)
    \/ \E p \in Players : startQuizForUser(p)
    \/ \E p \in Players, o \in OptionChoices : SelectOption(p, o)
    \/ \E p \in Players : ClickSubmit(p)
    \/ \E p \in Players : ParticipantTick(p)
    \/ \E t \in pTasks, ok \in BOOLEAN : WriteDone(t, ok)
    \/ \E t \in pTasks, ok \in BOOLEAN : sendCompleted(t, ok)

SubmitSpec == SubmitInit /\ [][SubmitNext]_vars

\* Two participants of the same call take the same quiz and submit in any order.
PairInit == InitWith(QuizOne, Participants)

PairNext ==
    \/ startQuiz
    \/ \E ok \in BOOLEAN : startQuizAddDoc(ok)
    \/ \E ok \in BOOLEAN : startQuizSend(ok)
    \/ \E p \in Participants : \E m \in inbox[p] : RecvEvent(p, m)
    \/ \E p \in Participants, ok \in BOOLEAN : LoadDone(p, ok)
    \/ \E p \in Participants : ParticipantSnapshot(p)
    \/ \E p \in Participants : startQuizForUser(p)
    \/ \E p \in Participants, o \in OptionChoices : SelectOption(p, o)
    \/ \E p \in Participants : ClickSubmit(p)
    \/ \E t \in pTasks, ok \in BOOLEAN : WriteDone(t, ok)

PairSpec == PairInit /\ [][PairNext]_vars

\* Two participants answering a one-question quiz while participants leave and
\* join the call and the host's listener follows the record.
LeaveInit == InitWith(QuizOne, Participants)

LeaveNext ==
    \/ startQuiz
    \/ startQuizAddDoc(TRUE)
    \/ startQuizSend(TRUE)
    \/ \E p \in Participants : \E m \in inbox[p] : RecvEvent(p, m)
    \/ \E p \in Participants : LoadDone(p, TRUE)
    \/ \E p \in Participants : ParticipantSnapshot(p)
    \/ \E p \in Participants : startQuizForUser(p)
    \/ \E p \in Participants : SelectOption(p, 0)
    \/ \E p \in Participants : ClickSubmit(p)
    \/ \E t \in pTasks : WriteDone(t, TRUE)
    \/ \E t \in pTasks : sendCompleted(t, TRUE)
    \/ \E i \in QuizIds : HostSnapshot(i)
    \/ \E p \in Participants : Join(p)
    \/ \E p \in Participants : Leave(p)

LeaveSpec == LeaveInit /\ [][LeaveNext]_vars

\* A participant through two quizzes of one session: the host runs a
\* two-question quiz, ends and resets it, composes a one-question quiz and
\* starts it.
SessionInit == InitWith(QuizTwo, Players)

SessionNext ==
    \/ SetTitle(QuizOne.title)
    \/ addQuestion(Question(0))
    \/ startQuiz
    \/ startQuizAddDoc(TRUE)
    \/ startQuizSend(TRUE)
    \/ ClickEndQuiz
    \/ \E t \in hTasks : endQuizUpdateDoc(t, TRUE)
    \/ \E t \in hTasks : endQuizSend(t, TRUE)
    \/ resetQuiz
    \/ \E t \in hTasks : resetQuizDeleteDoc(t, TRUE)
    \/ \E p \in Players : \E m \in inbox[p] : RecvEvent(p, m)
    \/ \E p \in Players : LoadDone(p, TRUE)
    \/ \E p \in Players : ParticipantSnapshot(p)
    \/ \E p \in Players : startQuizForUser(p)
    \/ \E p \in Players : SelectOption(p, 0)
    \/ \E p \in Players : ClickNext(p)
    \/ \E p \in Players : ClickSubmit(p)
    \/ \E t \in pTasks : WriteDone(t, TRUE)

SessionSpec == SessionInit /\ [][SessionNext]_vars

\* One two-question quiz in which the participants' timers keep ticking, the
\* record updates of a participant's submission succeed and the listener keeps
\* delivering snapshots; clicks of the participant and of the host may or may
\* not happen.
LiveInit == InitWith(QuizTwo, Players)

LiveNext ==
    \/ startQuiz
    \/ startQuizAddDoc(TRUE)
    \/ startQuizSend(TRUE)
    \/ ClickEndQuiz
    \/ \E t \in hTasks : endQuizUpdateDoc(t, TRUE)
    \/ \E t \in hTasks, ok \in BOOLEAN : endQuizSend(t, ok)
    \/ \E p \in Players : \E m \in inbox[p] : RecvEvent(p, m)
    \/ \E p \in Players : LoadDone(p, TRUE)
    \/ \E p \in Players : ParticipantSnapshot(p)
    \/ \E p \in Players : startQuizForUser(p)
    \/ \E p \in Players : SelectOption(p, 0)
    \/ \E p \in Players : ClickNext(p)
    \/ \E p \in Players : ClickSubmit(p)
    \/ \E p \in Players : ParticipantTick(p)
    \/ \E t \in pTasks : WriteDone(t, TRUE)

LiveSpec ==
    /\ LiveInit /\ [][LiveNext]_vars
    /\ \A p \in Players :
          /\ WF_vars(ParticipantTick(p))
          /\ WF_vars(ParticipantSnapshot(p))
          /\ WF_vars(\E t \in pTasks : t.p = p /\ WriteDone(t, TRUE))

\* The host running quizzes back to back, composing each from valid input, with
\* nobody else in the call.
RerunInit == InitWith(QuizOne, {})

RerunNext ==
    \/ SetTitle(QuizOne.title)
    \/ addQuestion(Question(0))
    \/ startQuiz
    \/ \E ok \in BOOLEAN : startQuizAddDoc(ok)
    \/ \E ok \in BOOLEAN : startQuizSend(ok)
    \/ ClickEndQuiz
    \/ \E t \in hTasks, ok \in BOOLEAN : endQuizUpdateDoc(t, ok)
    \/ \E t \in hTasks, ok \in BOOLEAN : endQuizSend(t, ok)
    \/ resetQuiz
    \/ \E t \in hTasks, ok \in BOOLEAN : resetQuizDeleteDoc(t, ok)
    \/ \E i \in QuizIds : HostSnapshot(i)
    \/ HostTick

RerunSpec == RerunInit /\ [][RerunNext]_vars

\* The whiteboard: the host draws and clears, participants open the board.
WbInit == InitWith(EmptyQuiz, {})

WbNext ==
    \/ handleMouseDown(Host)
    \/ handleMouseMove(Host)
    \/ \E flushed \in BOOLEAN : handleMouseUp(Host, flushed)
    \/ debouncedSendPoints
    \/ \E t \in strokeSends, ok \in BOOLEAN : sendStrokeWithRetry(t, ok)
    \/ \E ok \in BOOLEAN : clearCanvas(Host, ok)
    \/ \E R \in SUBSET Players : SyncTick(R)
    \/ \E p \in Players : WbOpen(p)
    \/ \E t \in stateRequests, ok \in BOOLEAN : requestStateWithRetry(t, ok)
    \/ \E r \in Peers : \E m \in wbInbox[r] : whiteboardEvent(r, m)

WbSpec == WbInit /\ [][WbNext]_vars

\* The whiteboard with participants that close and reopen it, over a channel
\* that accepts every request_state send (WbSpec has the rejected ones).
RejoinInit == InitWith(EmptyQuiz, {})

RejoinNext ==
    \/ handleMouseDown(Host)
    \/ \E flushed \in BOOLEAN : handleMouseUp(Host, flushed)
    \/ debouncedSendPoints
    \/ \E t \in strokeSends, ok \in BOOLEAN : sendStrokeWithRetry(t, ok)
    \/ \E ok \in BOOLEAN : clearCanvas(Host, ok)
    \/ \E R \in SUBSET Players : SyncTick(R)
    \/ \E p \in Players : WbOpen(p)
    \/ \E p \in Players : WbClose(p)
    \/ \E t \in stateRequests : requestStateWithRetry(t, TRUE)
    \/ \E r \in Peers : \E m \in wbInbox[r] : whiteboardEvent(r, m)

RejoinSpec == RejoinInit /\ [][RejoinNext]_vars

\* The whiteboard between two firings of the periodic sync: a full_state is
\* sent only in reply to a request_state.
ReplyInit == InitWith(EmptyQuiz, {})

ReplyNext ==
    \/ handleMouseDown(Host)
    \/ \E flushed \in BOOLEAN : handleMouseUp(Host, flushed)
    \/ debouncedSendPoints
    \/ \E t \in strokeSends, ok \in BOOLEAN : sendStrokeWithRetry(t, ok)
    \/ \E ok \in BOOLEAN : clearCanvas(Host, ok)
    \/ \E p \in Players : WbOpen(p)
    \/ \E t \in stateRequests, ok \in BOOLEAN : requestStateWithRetry(t, ok)
    \/ \E r \in Peers : \E m \in wbInbox[r] : whiteboardEvent(r, m)

ReplySpec == ReplyInit /\ [][ReplyNext]_vars

\* The host draws and then closes the whiteboard while sends are outstanding.
TeardownInit == InitWith(EmptyQuiz, {})

TeardownNext ==
    \/ handleMouseDown(Host)
    \/ \E flushed \in BOOLEAN : handleMouseUp(Host, flushed)
    \/ debouncedSendPoints
    \/ \E t \in strokeSends, ok \in BOOLEAN : sendStrokeWithRetry(t, ok)
    \/ \E ok \in BOOLEAN : clearCanvas(Host, ok)
    \/ \E p \in Players : WbOpen(p)
    \/ \E t \in stateRequests, ok \in BOOLEAN : requestStateWithRetry(t, ok)
    \/ \E r \in Peers : \E m \in wbInbox[r] : whiteboardEvent(r, m)
    \/ WbCloseHost

TeardownSpec == TeardownInit /\ [][TeardownNext]_vars

\* The host alone draws one stroke after the other over a channel that
\* rejects sends at will.
OrderInit == InitWith(EmptyQuiz, {})

OrderNext ==
    \/ handleMouseDownUpTo(Host, MaxOrderedStrokes)
    \/ \E flushed \in BOOLEAN : handleMouseUp(Host, flushed)
    \/ debouncedSendPoints
    \/ \E t \in strokeSends, ok \in BOOLEAN : sendStrokeWithRetry(t, ok)

OrderSpec == OrderInit /\ [][OrderNext]_vars

\* The host draws, then clears the board, and draws nothing after the clear:
\* every stroke batch there is was drawn before the clear.
ClearInit == InitWith(EmptyQuiz, {})

ClearNext ==
    \/ cleared = 0 /\ handleMouseDownUpTo(Host, MaxOrderedStrokes)
    \/ \E flushed \in BOOLEAN : handleMouseUp(Host, flushed)
    \/ debouncedSendPoints
    \/ \E t \in strokeSends, ok \in BOOLEAN : sendStrokeWithRetry(t, ok)
    \/ \E ok \in BOOLEAN : clearCanvas(Host, ok)

ClearSpec == ClearInit /\ [][ClearNext]_vars

\* The periodic full_state reaches participant p.
SyncDeliveredTo(p) == \E R \in SUBSET Players : p \in R /\ SyncTick(R)

\* The handler of participant p runs on an event delivered to it.
Handled(p) == \E m \in wbInbox[p] : whiteboardEvent(p, m)

\* The whiteboard over a fair channel: the periodic full_state keeps reaching
\* every mounted participant, and delivered events are handled.
WbFairSpec ==
    /\ WbInit /\ [][WbNext]_vars
    /\ \A p \in Players : SF_vars(SyncDeliveredTo(p)) /\ WF_vars(Handled(p))

\* The leaderboard rendered with one result mapping after another.
LbInit == InitWith(EmptyQuiz, {})

LbNext == \E results \in ResultEntries : LeaderboardRender(results)

LbSpec == LbInit /\ [][LbNext]_vars

\* The host's point buffer and the debounced function that empties it.
BatchInit == InitWith(EmptyQuiz, {})

BatchNext ==
    \/ PushPoint
    \/ FlushPoints

BatchSpec == BatchInit /\ [][BatchNext]_vars


\* The whiteboard with pointer input and clear on every view, the participants'
\* included.
PointerInit == InitWith(EmptyQuiz, {})

PointerNext ==
    \/ \E r \in Peers : handleMouseDown(r)
    \/ \E r \in Peers : handleMouseMove(r)
    \/ \E r \in Peers, flushed \in BOOLEAN : handleMouseUp(r, flushed)
    \/ debouncedSendPoints
    \/ \E t \in strokeSends, ok \in BOOLEAN : sendStrokeWithRetry(t, ok)
    \/ \E r \in Peers, ok \in BOOLEAN : clearCanvas(r, ok)
    \/ \E R \in SUBSET Players : SyncTick(R)
    \/ \E p \in Players : WbOpen(p)
    \/ \E t \in stateRequests, ok \in BOOLEAN : requestStateWithRetry(t, ok)
    \/ \E r \in Peers : \E m \in wbInbox[r] : whiteboardEvent(r, m)

PointerSpec == PointerInit /\ [][PointerNext]_vars

\* ------------------------------------------------------------------ claims
\* C1: when startQuiz has created the quiz record and the quiz.start broadcast
\* then fails, startQuiz finishes with the created record deleted, the host's
\* active-quiz id cleared and the host's quiz status idle.
C1_RollbackOnFailedBroadcast ==
    [][(startTask.pc = "send" /\ startTask'.pc = "none" /\ emitted' = NoEvent)
        => /\ ~docs'[startTask.id].exists
           /\ h'.activeQuizRef = NoRef
           /\ h'.quizStatus = "idle"]_vars

\* C2: a startQuiz with an empty or whitespace-only title, or with no question,
\* creates no record, starts no creation or broadcast, and leaves the host idle
\* with its question list and active-quiz id unchanged.
C2_InvalidStartRejected ==
    [][(startQuiz /\ (Trim(h.quiz.title) = <<>> \/ Len(h.quiz.questions) = 0))
        => /\ docs' = docs /\ nextId' = nextId
           /\ startTask'.pc = "none"
           /\ emitted' = NoEvent /\ inbox' = inbox
           /\ h'.quizStatus = "idle"
           /\ h'.quiz.questions = h.quiz.questions
           /\ h'.activeQuizRef = h.activeQuizRef]_vars

\* A start was rejected for a whitespace-only title although a question was there.
C2_Witness ==
    /\ h.error = "Please add a quiz title"
    /\ h.quiz.title = <<" ">>
    /\ Len(h.quiz.questions) > 0
    /\ h.quizStatus = "idle" /\ startTask.pc = "none" /\ nextId = 1

\* C3: once a participant's result entry is in the record, no write other than
\* that participant's own removes or changes it while the record exists.
C3_EntryPreserved ==
    [][\A i \in QuizIds, p \in Players :
          (/\ docs[i].exists /\ docs'[i].exists
           /\ p \in DOMAIN docs[i].results
           /\ ~(\E t \in pTasks : t.p = p /\ t.pc = "updateDoc" /\ t \notin pTasks'))
          => /\ p \in DOMAIN docs'[i].results
             /\ docs'[i].results[p] = docs[i].results[p]]_vars

\* C10: a participant that has loaded a quiz and receives the host's end-of-quiz
\* event (quiz.results) shows the final leaderboard from then on.
C10_EndEventShowsLeaderboard ==
    [][\A p \in Players :
          (\E m \in inbox[p] :
              /\ m.type = "quiz.results"
              /\ inbox'[p] = inbox[p] \ {m}
              /\ pt[p].activeQuiz # NoQuiz
              /\ m.quizId = pt[p].activeQuiz.id)
          => View(pt'[p]) = "leaderboard"]_vars
\* C4: for each participant and each quiz at most one result write is ever
\* issued, whatever the interleaving of the last question's timer expiry and
\* the Submit button.
C4_AtMostOneWrite ==
    \A p \in Players, i \in QuizIds : writesIssued[p][i] <= 1

\* C5: the score of every result entry, in flight or recorded, is the number of
\* questions whose recorded selectedOption equals the question's correctOption;
\* a question recorded as unanswered (-1) is never among them; and the score
\* lies between 0 and the number of questions.
C5_ScoreCountsCorrect ==
    \A i \in QuizIds :
       docs[i].exists =>
          \A e \in {docs[i].results[p] : p \in DOMAIN docs[i].results}
                   \cup {t.entry : t \in {u \in pTasks : u.quizId = i}} :
             LET qs == docs[i].questions
                 correct == {k \in 1..Len(qs) :
                               e.answers[k].selectedOption = qs[k].correctOption}
             IN  /\ Len(e.answers) = Len(qs)
                 /\ e.score = Cardinality(correct)
                 /\ \A k \in correct : e.answers[k].selectedOption # NoAnswer
                 /\ 0 <= e.score /\ e.score <= Len(qs)

\* A recorded entry whose first question ran out unanswered and whose second
\* question was answered correctly.
C5_Witness ==
    \E i \in QuizIds : \E p \in DOMAIN docs[i].results :
       /\ docs[i].exists
       /\ docs[i].results[p].answers[1].selectedOption = NoAnswer
       /\ docs[i].results[p].answers[2].selectedOption = docs[i].questions[2].correctOption
       /\ docs[i].results[p].score = 1
\* C6: the lifecycle is monotonic: a record's isActive never goes from false
\* back to true; the host's quiz status never goes from ended to active; and it
\* goes from active or ended to idle only in a step of resetQuiz.
C6_LifecycleMonotonic ==
    [][/\ \A i \in QuizIds :
             (docs[i].exists /\ ~docs[i].isActive /\ docs'[i].exists)
             => ~docs'[i].isActive
       /\ ~(h.quizStatus = "ended" /\ h'.quizStatus = "active")
       /\ (h.quizStatus \in {"active", "ended"} /\ h'.quizStatus = "idle")
          => \/ resetQuiz
             \/ \E t \in hTasks, ok \in BOOLEAN : resetQuizDeleteDoc(t, ok)]_vars
\* C7: every change of the host's whiteboard state is one accepted mutation (a
\* stroke batch appended to the log, or a clear) and raises the version by
\* exactly 1; every clear raises it by 1, also on an empty board; the version
\* never decreases.
C7_VersionStepsByOne ==
    [][/\ stateRef'[Host].version >= stateRef[Host].version
       /\ (stateRef'[Host] # stateRef[Host] \/ cleared' # cleared)
          => /\ stateRef'[Host].version = stateRef[Host].version + 1
             /\ \/ stateRef'[Host].strokes = <<>>
                \/ \E s \in StrokeIds :
                      stateRef'[Host].strokes = Append(stateRef[Host].strokes, s)]_vars

\* The host cleared a board that held a stroke and accepted a stroke afterwards.
C7_Witness ==
    /\ cleared = 1
    /\ Len(stateRef[Host].strokes) = 1
    /\ stateRef[Host].version >= 3

\* C8: a full_state event carries the state the host holds when it sends it; a
\* participant that handles one ends with exactly that state as its replica,
\* whatever the replica was; and handling it twice gives what handling it once
\* gives.
C8_FullStateOverwrites ==
    [][\A p \in Players :
          /\ \A m \in wbInbox'[p] \ wbInbox[p] :
                m.type = "full_state" => m.state = stateRef[Host]
          /\ \A m \in wbInbox[p] :
                (/\ m.type = "full_state"
                 /\ whiteboardEvent(p, m))
                => /\ stateRef'[p] = m.state
                   /\ onFullState(onFullState(stateRef[p], m), m)
                      = onFullState(stateRef[p], m)]_vars

\* A participant that already took a full_state has a non-empty replica newer
\* than a full_state that is still to be handled.
C8_Witness ==
    \E p \in Players : \E m \in wbInbox[p] :
       /\ m.type = "full_state"
       /\ initialized[p]
       /\ stateRef[p].strokes # <<>>
       /\ m.state.version < stateRef[p].version
       /\ m.state # stateRef[p]

\* C9: over a fair channel the replica of every mounted participant eventually
\* equals the host's state and stays equal (the host's mutations are finitely
\* many).
C9_SelfHealing ==
    <>[](\A p \in Players : p \in mounted => stateRef[p] = stateRef[Host])

\* A mounted participant's replica differs from the host's state: it holds a
\* stroke twice that the host's log holds once.
C9_Witness ==
    \E p \in Players :
       /\ p \in mounted
       /\ Len(stateRef[p].strokes) = 2 /\ stateRef[p].strokes[1] = stateRef[p].strokes[2]
       /\ Len(stateRef[Host].strokes) = 1
       /\ strokeSends = {} /\ drawn = MaxStrokes

\* C11: when a participant's countdown reaches 0 on a question with no option
\* selected, the participant's own timer step moves it to the next question, or
\* on the last question issues the result write; in the entry written every
\* question left without a selection is recorded as -1 and adds 0 to the score.
C11_TimeoutRecordsNoAnswer ==
    [][\A p \in Players :
          (/\ pt[p].timeLeft = 1
           /\ TimerRunning(pt[p])
           /\ pt[p].selectedOptions[pt[p].currentQuestion + 1] = NULL
           /\ ParticipantTick(p))
          => IF ~IsLastQuestion(pt[p])
             THEN /\ pt'[p].currentQuestion = pt[p].currentQuestion + 1
                  /\ pt'[p].selectedOptions = pt[p].selectedOptions
                  /\ View(pt'[p]) = "question"
                  /\ pTasks' = pTasks
             ELSE /\ writesIssued'[p][pt[p].activeQuiz.id]
                        = writesIssued[p][pt[p].activeQuiz.id] + 1
                  /\ \E t \in pTasks' :
                        /\ t.p = p /\ t.quizId = pt[p].activeQuiz.id /\ t.pc = "updateDoc"
                        /\ \A k \in DOMAIN pt[p].selectedOptions :
                              pt[p].selectedOptions[k] = NULL
                              => LET qs == pt[p].activeQuiz.questions
                                     others == {j \in (1..Len(qs)) \ {k} :
                                                  t.entry.answers[j].selectedOption
                                                  = qs[j].correctOption}
                                 IN  /\ t.entry.answers[k].selectedOption = NoAnswer
                                     /\ t.entry.score = Cardinality(others)]_vars

\* A recorded entry written by the timer alone: both questions ran out with no
\* selection, both answers are -1 and the score is 0.
C11_Witness ==
    \E i \in QuizIds : \E p \in DOMAIN docs[i].results :
       /\ docs[i].exists
       /\ writesIssued[p][i] = 1
       /\ docs[i].results[p].answers[1].selectedOption = NoAnswer
       /\ docs[i].results[p].answers[2].selectedOption = NoAnswer
       /\ docs[i].results[p].score = 0

\* C12: the leaderboard lists the entries of its result mapping by score
\* descending, ties by total time taken ascending, and entries equal on both in
\* the order the mapping holds them; {A: 3/20, B: 3/15, C: 5/50} is listed as
\* [C, B, A].
C12_LeaderboardOrder ==
    /\ Len(sortedResults) = Len(localResults)
    /\ {sortedResults[i] : i \in DOMAIN sortedResults}
       = {localResults[i] : i \in DOMAIN localResults}
    /\ \A i, j \in DOMAIN sortedResults :
          i < j =>
             LET a == sortedResults[i]
                 b == sortedResults[j]
                 Pos(e) == CHOOSE k \in DOMAIN localResults : localResults[k] = e
             IN  /\ a.score >= b.score
                 /\ a.score = b.score => a.timeTaken <= b.timeTaken
                 /\ (a.score = b.score /\ a.timeTaken = b.timeTaken) => Pos(a) < Pos(b)
    /\ localResults = <<[userId |-> "A", score |-> 3, timeTaken |-> 20],
                        [userId |-> "B", score |-> 3, timeTaken |-> 15],
                        [userId |-> "C", score |-> 5, timeTaken |-> 50]>>
       => [i \in DOMAIN sortedResults |-> sortedResults[i].userId] = <<"C", "B", "A">>

\* The leaderboard lists a mapping in which the entry held first has the lower
\* score, and two entries tie on the score with the later one the faster.
C12_Witness ==
    /\ Len(localResults) = 3
    /\ localResults[1].score < localResults[3].score
    /\ localResults[1].score = localResults[2].score
    /\ localResults[2].timeTaken < localResults[1].timeTaken
    /\ sortedResults = <<localResults[3], localResults[2], localResults[1]>>

\* C13: a stroke batch and a request_state are each sent at most 5 times: an
\* invocation that has already failed 5 times sends nothing and ends the chain
\* with nothing else changed; a send is only made by an invocation with fewer
\* than 5 failures behind it; a successful send ends the chain, a failed one is
\* followed by exactly one invocation with one more failure counted.
C13_RetryBounded ==
    [][/\ \A t \in strokeSends \cup stateRequests : t.attempts <= MAX_RETRY_ATTEMPTS
       /\ \A t \in strokeSends \ strokeSends' :
             LET next == {u \in strokeSends' : u.stroke = t.stroke}
             IN  /\ t.attempts = MAX_RETRY_ATTEMPTS
                    => /\ next = {}
                       /\ UNCHANGED <<stateRef, storage, wbInbox, mounted, initialized,
                                      stateRequests, drawn, cleared, penVars, quizVars>>
                 /\ (t.attempts < MAX_RETRY_ATTEMPTS /\ next = {})
                    => stateRef'[Host] = AppendedBoard(stateRef[Host], t.stroke)
                 /\ next # {}
                    => /\ next = {[t EXCEPT !.attempts = @ + 1]}
                       /\ t.attempts < MAX_RETRY_ATTEMPTS
                       /\ UNCHANGED <<stateRef, wbInbox>>
       /\ \A t \in stateRequests \ stateRequests' :
             LET next == {u \in stateRequests' : u.p = t.p}
             IN  /\ t.attempts = MAX_RETRY_ATTEMPTS
                    => /\ next = {}
                       /\ UNCHANGED <<stateRef, storage, wbInbox, mounted, initialized,
                                      strokeSends, drawn, cleared, penVars, quizVars>>
                 /\ next # {}
                    => /\ next = {[t EXCEPT !.attempts = @ + 1]}
                       /\ t.attempts < MAX_RETRY_ATTEMPTS
                       /\ UNCHANGED wbInbox]_vars

\* Both chains ran out: the host's stroke batch was given up after 5 failed
\* sends and never entered the log, and so was the participants' request.
C13_Witness ==
    /\ drawn = 1 /\ strokeSends = {}
    /\ stateRef[Host] = EmptyBoard /\ cleared = 0
    /\ mounted = Peers /\ stateRequests = {}
    /\ \A r \in Peers : wbInbox[r] = {} /\ ~initialized[r]

\* C14: pointer-down, pointer-move, pointer-up and clear on a participant's view
\* leave its replica, its point buffer, its saved state and the channel
\* unchanged and start no send; a participant never has buffered points and is
\* never drawing; and stroke, clear and full_state events enter the channel
\* only in steps of the host (its stroke send, its clear, its periodic sync and
\* its answer to request_state).
C14_NonHostInputIsNoOp ==
    [][/\ \A p \in Players :
             /\ pointsBuffer[p] = 0 /\ ~isDrawing[p]
             /\ (\/ handleMouseDown(p) \/ handleMouseMove(p)
                 \/ \E flushed \in BOOLEAN : handleMouseUp(p, flushed)
                 \/ \E ok \in BOOLEAN : clearCanvas(p, ok))
                => UNCHANGED <<stateRef, storage, wbInbox, strokeSends, stateRequests,
                               pointsBuffer, isDrawing, drawn, cleared, initialized>>
       /\ (\E r \in Peers : \E m \in wbInbox'[r] \ wbInbox[r] :
               m.type \in {"stroke", "clear", "full_state"})
          => \/ \E t \in strokeSends : sendStrokeWithRetry(t, TRUE)
             \/ clearCanvas(Host, TRUE)
             \/ \E R \in SUBSET Players : SyncTick(R)
             \/ \E m \in wbInbox[Host] :
                   m.type = "request_state" /\ whiteboardEvent(Host, m)]_vars

\* A participant's canvas got pointer input while the board was empty and idle:
\* nothing was buffered, sent or drawn.
C14_Witness ==
    \E p \in Players :
       /\ p \in mounted
       /\ pointerEvents[p] = MaxPointerEvents
       /\ pointsBuffer[p] = 0 /\ ~isDrawing[p]
       /\ stateRef[p] = EmptyBoard /\ storage[p] = <<>>
       /\ strokeSends = {} /\ stateRequests = {}
       /\ \A r \in Peers : wbInbox[r] = {}
       /\ drawn = 0 /\ cleared = 0

\* C15: addQuestion with a question whose text is empty, or that has an empty
\* option, or whose time limit is outside [5,300], leaves the host's question
\* list unchanged and sets an error; and every question in the host's list and
\* in every record has non-empty text, no empty option and a time limit within
\* [5,300].
C15_InvalidQuestionRejected ==
    [][/\ \A q \in QuestionInputs :
             (/\ \/ q.question = <<>>
                 \/ \E i \in DOMAIN q.options : q.options[i] = <<>>
                 \/ q.timeLimit < MinTimeLimit \/ q.timeLimit > MaxTimeLimit
              /\ addQuestion(q))
             => /\ h'.quiz.questions = h.quiz.questions
                /\ h'.error # ""
       /\ \A qs \in {h'.quiz.questions} \cup {docs'[i].questions : i \in QuizIds} :
             \A k \in DOMAIN qs :
                /\ qs[k].question # <<>>
                /\ \A i \in DOMAIN qs[k].options : qs[k].options[i] # <<>>
                /\ qs[k].timeLimit >= MinTimeLimit /\ qs[k].timeLimit <= MaxTimeLimit]_vars

\* A question with an empty option was rejected after one question had been
\* accepted, and the quiz was then started with that one question.
C15_Witness ==
    /\ h.error = "All options must be filled out"
    /\ Len(h.quiz.questions) = 1
    /\ \E i \in QuizIds : docs[i].exists /\ Len(docs[i].questions) = 1

\* C16: an endQuiz invocation gets to its broadcast only through its record
\* update, which sets isActive=false, the final result mapping and the end
\* timestamp; a quiz.results event is broadcast only by an invocation that is
\* past that update, for a record that is then ended; and when the update
\* fails the invocation ends with no event broadcast and the host's quiz
\* status as it was.
C16_BroadcastAfterRecordUpdate ==
    [][/\ \A u \in hTasks' \ hTasks :
             (u.op = "endQuiz" /\ u.pc = "send")
             => /\ [u EXCEPT !.pc = "updateDoc"] \in hTasks \ hTasks'
                /\ docs'[u.ref].exists /\ ~docs'[u.ref].isActive
                /\ docs'[u.ref].results = u.finalResults
                /\ docs'[u.ref].endTime
       /\ \A t \in hTasks \ hTasks' :
             (t.op = "endQuiz" /\ t.pc = "updateDoc")
             => /\ emitted' = NoEvent /\ inbox' = inbox
                /\ [t EXCEPT !.pc = "send"] \notin hTasks'
                   => /\ docs' = docs
                      /\ h'.quizStatus = h.quizStatus
                      /\ hTasks' = hTasks \ {t}
       /\ (emitted'.type = "quiz.results" \/ \E p \in Players : \E m \in inbox'[p] \ inbox[p] :
                                               m.type = "quiz.results")
          => \E t \in hTasks \ hTasks' :
                /\ t.op = "endQuiz" /\ t.pc = "send"
                /\ emitted' = ResultsEvent(t.ref, t.finalResults)
                /\ docs[t.ref].exists => (~docs[t.ref].isActive /\ docs[t.ref].endTime)]_vars

\* The record update of an endQuiz failed: the quiz is still active on the
\* record and on the host, no invocation is left and no participant holds a
\* results event.
C16_Witness ==
    /\ h.error = "Failed to end quiz. Please try again."
    /\ h.activeQuizRef # NoRef /\ h.quizStatus = "active"
    /\ docs[h.activeQuizRef].exists /\ docs[h.activeQuizRef].isActive
    /\ hTasks = {} /\ connected = Players
    /\ \A p \in Players : \A m \in inbox[p] : m.type # "quiz.results"

\* C17: when resetQuiz completes, the record of the quiz is deleted and the host
\* is idle with no active-quiz id, an empty result mapping, an empty title and
\* an empty question list.
C17_ResetDeletesAndClears ==
    [][\A t \in hTasks \ hTasks' :
          t.op = "resetQuiz"
          => /\ ~docs'[t.ref].exists
             /\ h'.quizStatus = "idle" /\ h'.activeQuizRef = NoRef
             /\ h'.results = EmptyMap
             /\ h'.quiz.title = <<>> /\ h'.quiz.questions = <<>>]_vars

\* C18: when the host's listener gets a snapshot of an active record in which
\* every participant now in the call has a result, the host starts endQuiz with
\* the results of that snapshot, with no End Quiz click; and the record update
\* of that invocation, once applied, leaves the record with isActive=false.
C18_AutoEndWhenAllSubmitted ==
    [][/\ \A i \in QuizIds :
             (/\ docs[i].exists /\ docs[i].isActive
              /\ connected \subseteq DOMAIN docs[i].results
              /\ HostSnapshot(i))
             => /\ [op |-> "endQuiz", pc |-> "updateDoc", ref |-> i,
                    finalResults |-> docs[i].results] \in hTasks'
                /\ h'.results = docs[i].results
       /\ \A t \in hTasks \ hTasks' :
             (t.op = "endQuiz" /\ t.pc = "updateDoc" /\ docs' # docs)
             => docs'[t.ref].exists /\ ~docs'[t.ref].isActive]_vars

\* The only participant in the call has its result in the active record and the
\* host, still showing the quiz as active, has an endQuiz under way that carries
\* that result.
C18_Witness ==
    \E t \in hTasks :
       /\ t.op = "endQuiz" /\ t.pc = "updateDoc"
       /\ connected = Players /\ DOMAIN t.finalResults = Players
       /\ docs[t.ref].exists /\ docs[t.ref].isActive
       /\ docs[t.ref].results = t.finalResults
       /\ h.quizStatus = "active" /\ h.results = t.finalResults

\* C19: when the fetch a participant issued on quiz.start completes: if the
\* record of the event's id does not exist the participant has an error set and
\* no active quiz; if the fetch succeeds and the record exists the participant
\* holds that quiz at question 0 with one answer slot per question, every slot
\* unanswered, and its timer at the first question's time limit.
C19_LoadQuiz ==
    [][\A p \in Players :
          \A ok \in BOOLEAN :
             LoadDone(p, ok)
             => LET d == docs[pt[p].quizEvent.quizId]
                    s == pt'[p]
                IN  /\ pt[p].quizEvent.type = "quiz.start"
                    /\ ~d.exists => (s.error # "" /\ s.activeQuiz = NoQuiz)
                    /\ ~ok => (s.error # "" /\ s.activeQuiz = NoQuiz)
                    /\ (ok /\ d.exists)
                       => /\ s.activeQuiz.id = pt[p].quizEvent.quizId
                          /\ s.activeQuiz.questions = d.questions
                          /\ s.currentQuestion = 0
                          /\ Len(s.selectedOptions) = Len(d.questions)
                          /\ \A k \in DOMAIN s.selectedOptions : s.selectedOptions[k] = NULL
                          /\ s.timeLeft = d.questions[1].timeLimit]_vars

\* A participant got quiz.start for a record that was gone when it fetched it.
C19_Witness ==
    \E p \in Players :
       /\ pt[p].showQuiz /\ pt[p].quizEvent.type = "quiz.start"
       /\ ~docs[pt[p].quizEvent.quizId].exists
       /\ pt[p].error = "Quiz not found. Please contact the host."
       /\ pt[p].activeQuiz = NoQuiz /\ ~pt[p].loading

\* C20: a quiz.completed send is issued only by a submission whose result write
\* has just succeeded (the entry is in the record and the participant is marked
\* as submitted), never after a failed write; and the step in which that send
\* fails or succeeds changes neither the record nor the participant's submitted
\* mark nor its error: the participant stays marked as submitted.
C20_CompletedAfterWrite ==
    [][/\ \A u \in pTasks' \ pTasks :
             u.pc = "send"
             => /\ [u EXCEPT !.pc = "updateDoc"] \in pTasks \ pTasks'
                /\ docs'[u.quizId].exists
                /\ u.p \in DOMAIN docs'[u.quizId].results
                /\ docs'[u.quizId].results[u.p] = u.entry
                /\ SameInstance(pt[u.p], u) => pt'[u.p].hasSubmitted
                /\ emitted' = NoEvent
       /\ emitted'.type = "quiz.completed"
          => \E t \in pTasks \ pTasks' : t.pc = "send" /\ emitted' = CompletedEvent(t)
       /\ \A t \in pTasks \ pTasks' :
             t.pc = "send"
             => /\ docs' = docs
                /\ pt'[t.p].hasSubmitted = pt[t.p].hasSubmitted
                /\ pt'[t.p].error = pt[t.p].error
                /\ pt'[t.p].forceShowLeaderboard = pt[t.p].forceShowLeaderboard
                /\ SameInstance(pt[t.p], t) => pt'[t.p].hasSubmitted]_vars

\* The quiz.completed send of a participant failed: the participant is marked
\* as submitted, has no error, and its entry is in the record.
C20_Witness ==
    \E p \in Players :
       /\ pt[p].warned /\ pt[p].hasSubmitted /\ pt[p].error = ""
       /\ pt[p].activeQuiz # NoQuiz
       /\ docs[pt[p].activeQuiz.id].exists
       /\ p \in DOMAIN docs[pt[p].activeQuiz.id].results
       /\ pTasks = {}

\* C21: a quiz.start send is issued only by a startQuiz whose addDoc has just
\* created the record, with isActive = true and the question list and title the
\* host composed; the invocation keeps that id and quiz until its send settles;
\* a created record never changes its title or question list; and every
\* quiz.start the channel accepts comes from such a pending send and carries
\* that id, that title and that number of questions. A startQuiz whose addDoc
\* failed therefore broadcasts nothing.
C21_StartCarriesCreatedRecord ==
    [][/\ (startTask'.pc = "send" /\ startTask.pc # "send")
          => /\ startTask.pc = "addDoc"
             /\ startTask'.quiz = startTask.quiz
             /\ ~docs[startTask'.id].exists
             /\ docs'[startTask'.id] = QuizData(startTask.quiz)
             /\ docs'[startTask'.id].isActive
       /\ (startTask.pc = "send" /\ startTask'.pc = "send") => startTask' = startTask
       /\ \A i \in QuizIds :
             (docs[i].exists /\ docs'[i].exists)
             => /\ docs'[i].title = docs[i].title
                /\ docs'[i].questions = docs[i].questions
       /\ emitted'.type = "quiz.start"
          => /\ startTask.pc = "send" /\ startTask'.pc = "none"
             /\ emitted'.quizId = startTask.id
             /\ emitted'.title = startTask.quiz.title
             /\ emitted'.totalQuestions = Len(startTask.quiz.questions)
             /\ docs[startTask.id].exists
                => /\ emitted'.title = docs[startTask.id].title
                   /\ emitted'.totalQuestions = Len(docs[startTask.id].questions)]_vars

\* A quiz.start has just been broadcast for a record that exists and is active.
C21_Witness ==
    /\ emitted.type = "quiz.start"
    /\ docs[emitted.quizId].exists /\ docs[emitted.quizId].isActive
    /\ emitted.totalQuestions = Len(docs[emitted.quizId].questions)
    /\ emitted.totalQuestions > 0

\* C22: once a participant that has submitted shows a non-empty leaderboard, a
\* later snapshot of the record (whatever its result mapping) leaves the
\* participant showing a non-empty leaderboard.
C22_LastKnownGoodDisplay ==
    [][\A p \in Players :
          (/\ View(pt[p]) = "leaderboard"
           /\ pt[p].hasSubmitted
           /\ ParticipantSnapshot(p))
          => /\ View(pt'[p]) = "leaderboard"
             /\ DOMAIN pt'[p].liveResults # {}]_vars

\* C23: the step in which a participant's result write is applied changes, in
\* the whole store, only the entry of the record's result mapping keyed by that
\* participant: the record's existence, isActive, title, question list and end
\* time, every other participant's entry, and every other record are unchanged.
C23_SubmissionWritesOwnEntryOnly ==
    [][\A t \in pTasks : \A ok \in BOOLEAN :
          WriteDone(t, ok)
          => \A i \in QuizIds :
                /\ docs'[i].exists = docs[i].exists
                /\ docs'[i].isActive = docs[i].isActive
                /\ docs'[i].title = docs[i].title
                /\ docs'[i].questions = docs[i].questions
                /\ docs'[i].endTime = docs[i].endTime
                /\ DOMAIN docs'[i].results \subseteq DOMAIN docs[i].results \cup {t.p}
                /\ \A q \in DOMAIN docs[i].results :
                      q # t.p => /\ q \in DOMAIN docs'[i].results
                                 /\ docs'[i].results[q] = docs[i].results[q]
                /\ i # t.quizId => docs'[i] = docs[i]]_vars

\* Both participants' entries are in the same record, each under its own key,
\* the second written while the first was already there.
C23_Witness ==
    \E i \in QuizIds :
       /\ docs[i].exists
       /\ DOMAIN docs[i].results = Participants
       /\ \E p \in Participants : pt[p].hasSubmitted /\ writesIssued[p][i] = 1

\* C24: a broadcast send of the quiz engine that fails is sent again: after a
\* rejected quiz.start send the same send is still pending, and after a
\* rejected end-of-quiz results send a results send for the same record is
\* still pending.
C24_FailedSendRetried ==
    [][/\ (startTask.pc = "send" /\ startQuizSend(FALSE))
          => /\ startTask'.pc = "send"
             /\ startTask'.id = startTask.id
       /\ \A t \in hTasks :
             endQuizSend(t, FALSE)
             => \E u \in hTasks' : u.op = "endQuiz" /\ u.pc = "send" /\ u.ref = t.ref]_vars

\* C25: when a participant opens the whiteboard, a request_state send is issued
\* exactly when no cached state was found in localStorage.
C25_RequestIffNoCache ==
    [][\A p \in Players :
          WbOpen(p)
          => ((\E t \in stateRequests' : t.p = p /\ t.attempts = 0) <=> storage[p] = <<>>)]_vars

\* C26: when the host handles a request_state event, the only event it sends
\* is a full_state carrying its whole current state; when a participant
\* handles a request_state event nothing is sent; and every full_state event
\* that enters the channel carries the host's state of that moment.
C26_HostRepliesWithFullState ==
    [][/\ \A r \in Peers : \A m \in wbInbox[r] :
             (m.type = "request_state" /\ whiteboardEvent(r, m))
             => IF r = Host
                THEN /\ \A q \in Peers :
                           wbInbox'[q] \ wbInbox[q] \subseteq {FullStateEvent(stateRef[Host])}
                     /\ stateRef' = stateRef
                ELSE wbInbox' = [wbInbox EXCEPT ![r] = @ \ {m}]
       /\ \A q \in Peers : \A m \in wbInbox'[q] \ wbInbox[q] :
             m.type = "full_state" => m = FullStateEvent(stateRef[Host])]_vars

\* A participant holds a full_state event, sent in reply to its request, that
\* carries the host's current state after the host has drawn or cleared.
C26_Witness ==
    \E p \in Players : \E m \in wbInbox[p] :
       /\ m.type = "full_state"
       /\ m.state = stateRef[Host]
       /\ m.state.version > 0
       /\ stateRequests = {}

\* C27: the host's board (strokes and version) changes only in a step of the
\* host's own drawing (a stroke send that resolves) or clearing; the handling
\* of an event received from the channel never changes it.
C27_HostStateOnlyFromOwnActions ==
    [][\A m \in wbInbox[Host] :
          whiteboardEvent(Host, m) => stateRef'[Host] = stateRef[Host]]_vars

\* C28: at any time the host holds at most one live snapshot listener: no
\* record has more than one, and no two records have one each.
C28_AtMostOneSnapshotListener ==
    /\ \A i \in QuizIds : listeners[i] <= 1
    /\ \A i, j \in QuizIds : (listeners[i] > 0 /\ listeners[j] > 0) => i = j

\* C29: an endQuiz update applied to a record that an earlier endQuiz has
\* already ended leaves the record as it was: isActive = false and the same
\* result mapping.
C29_EndQuizIdempotent ==
    [][\A t \in hTasks : \A ok \in BOOLEAN :
          (/\ endQuizUpdateDoc(t, ok)
           /\ docs[t.ref].exists /\ ~docs[t.ref].isActive /\ docs[t.ref].endTime)
          => /\ ~docs'[t.ref].isActive
             /\ docs'[t.ref].results = docs[t.ref].results]_vars

\* C30: a run of the debounced function on a non-empty buffer hands on batches
\* of 1 to 25 points whose concatenation, in order, is the buffer's contents
\* (so every point is handed on exactly once), and leaves the buffer empty; a
\* run on an empty buffer hands on nothing.
C30_BatchesPartitionBuffer ==
    [][FlushPoints
       => LET RECURSIVE Flat(_)
              Flat(ss) == IF ss = <<>> THEN <<>> ELSE Head(ss) \o Flat(Tail(ss))
          IN  IF batchBuffer = <<>>
              THEN batchStrokes' = batchStrokes /\ batchBuffer' = <<>>
              ELSE /\ batchBuffer' = <<>>
                   /\ Len(batchStrokes') >= 1
                   /\ \A j \in DOMAIN batchStrokes' :
                         /\ Len(batchStrokes'[j]) >= 1
                         /\ Len(batchStrokes'[j]) <= MAX_POINTS_PER_BATCH
                   /\ Flat(batchStrokes') = batchBuffer]_vars

\* A buffer of more than two full batches has been flushed: three batches, the
\* last one shorter than the cap, and the buffer is empty.
C30_Witness ==
    /\ batchBuffer = <<>>
    /\ Len(batchStrokes) = 3
    /\ Len(batchStrokes[1]) = MAX_POINTS_PER_BATCH
    /\ Len(batchStrokes[3]) < MAX_POINTS_PER_BATCH

\* C31: an invocation of sendStrokeWithRetry that runs after the host's
\* whiteboard view was unmounted puts no event on the channel and changes
\* neither the whiteboard state nor the state saved in localStorage.
C31_RetryAfterTeardownIsNoOp ==
    [][\A t \in strokeSends : \A ok \in BOOLEAN :
          (Host \notin mounted /\ t.attempts > 0 /\ sendStrokeWithRetry(t, ok))
          => /\ wbInbox' = wbInbox
             /\ stateRef' = stateRef
             /\ storage' = storage]_vars

\* C32: in the result a participant submits, the time recorded for the last
\* question is that question's limit minus the time left when the participant
\* left it (nothing is left when its timer ran out); the time recorded for a
\* question the participant has already left does not depend on how long the
\* participant then stays on a later question; and the aggregate time is the
\* sum of the recorded per-question times.
C32_TimeTakenIsTimeSpent ==
    [][\A p \in Players :
          /\ \A t \in pTasks' \ pTasks :
                (t.p = p /\ t.pc = "updateDoc")
                => LET qs == pt[p].activeQuiz.questions
                       n == Len(qs)
                       left == IF ClickSubmit(p) THEN pt[p].timeLeft ELSE 0
                   IN  /\ t.entry.answers[n].timeTaken = qs[n].timeLimit - left
                       /\ t.entry.timeTaken = SumTimeTaken(t.entry.answers)
          /\ (/\ View(pt[p]) = "question"
              /\ pt[p].currentQuestion >= 1
              /\ ParticipantTick(p)
              /\ pt'[p].currentQuestion = pt[p].currentQuestion)
             => \A j \in 1..pt[p].currentQuestion :
                   Answers(pt[p].activeQuiz, pt[p].selectedOptions, pt'[p].timeLeft)[j].timeTaken
                   = Answers(pt[p].activeQuiz, pt[p].selectedOptions, pt[p].timeLeft)[j].timeTaken
      ]_vars

\* C33: the stroke batches in the host's log stand in the order in which the
\* host drew them.
C33_LogInDrawingOrder ==
    \A i, j \in DOMAIN stateRef[Host].strokes :
       i < j => stateRef[Host].strokes[i] <= stateRef[Host].strokes[j]

\* C34: once the host has cleared the board, its state holds no stroke batch
\* that was drawn before the clear (here every batch is drawn before it).
C34_NoStrokeFromBeforeClear ==
    cleared > 0 => stateRef[Host].strokes = <<>>

\* C35: a stroke batch gets into the host's state only in the step in which a
\* send attempt for it (one of the first MAX_RETRY_ATTEMPTS) succeeds, and it
\* is then in the host's state exactly once; a batch whose attempts all fail
\* is never added.
C35_InStateIffSendSucceeded ==
    [][\A s \in 1..MaxOrderedStrokes :
          LET before == {k \in DOMAIN stateRef[Host].strokes : stateRef[Host].strokes[k] = s}
              after == {k \in DOMAIN stateRef'[Host].strokes : stateRef'[Host].strokes[k] = s}
          IN  Cardinality(after) > Cardinality(before)
              => /\ \E t \in strokeSends :
                       /\ t.stroke = s /\ t.attempts < MAX_RETRY_ATTEMPTS
                       /\ sendStrokeWithRetry(t, TRUE)
                 /\ Cardinality(after) = 1]_vars

\* C36: as long as only stroke and full_state events have been sent (the board
\* was never cleared), a participant's replica never holds a stroke batch more
\* often than the host's log holds it, and its version never exceeds the
\* host's version, in whatever order the events are delivered.
C36_ReplicaWithinHost ==
    \A p \in Players :
       (p \in mounted /\ cleared = 0)
       => /\ stateRef[p].version <= stateRef[Host].version
          /\ \A s \in 1..MaxOrderedStrokes :
                Cardinality({k \in DOMAIN stateRef[p].strokes : stateRef[p].strokes[k] = s})
                <= Cardinality({k \in DOMAIN stateRef[Host].strokes :
                                   stateRef[Host].strokes[k] = s})

\* C37: when the host's listener starts endQuiz on a snapshot of an active
\* record (no End Quiz click, no timer expiry), every participant connected at
\* that moment has a result in that record, whoever joined or left before.
C37_NoAutoEndWhileSomeoneUnfinished ==
    [][\A i \in QuizIds :
          (HostSnapshot(i) /\ hTasks' # hTasks)
          => connected \subseteq DOMAIN docs[i].results]_vars

\* C38: once a quiz record is marked isActive=false, its result mapping stays
\* as it is for as long as the record exists: no step, in particular no
\* participant's record update, changes the results of an ended quiz.
C38_EndedResultsFrozen ==
    [][\A i \in QuizIds :
          (docs[i].exists /\ ~docs[i].isActive /\ docs'[i].exists)
          => docs'[i].results = docs[i].results]_vars

\* C39: a participant with a loaded quiz has its current question index within
\* 0..questionCount-1; and the handling of every quiz.start leaves the
\* participant at question 0, not started and not submitted, and it is still at
\* question 0 when it starts answering, whatever it had done in an earlier quiz.
C39_QuestionIndexInRange ==
    /\ [](\A p \in Players :
             pt[p].activeQuiz # NoQuiz
             => pt[p].currentQuestion \in 0..(Len(pt[p].activeQuiz.questions) - 1))
    /\ [][\A p \in Players :
             /\ \A m \in inbox[p] :
                   (m.type = "quiz.start" /\ RecvEvent(p, m))
                   => /\ pt'[p].currentQuestion = 0
                      /\ ~pt'[p].userStarted /\ ~pt'[p].hasSubmitted
                      /\ pt'[p].activeQuiz = NoQuiz
             /\ startQuizForUser(p) => pt'[p].currentQuestion = 0]_vars

\* The participant, having submitted its answers to the first quiz, is at
\* question 0 of the loaded second quiz and has not started it.
C39_Witness ==
    \E p \in Players :
       /\ writesIssued[p][1] > 0
       /\ pt[p].activeQuiz # NoQuiz /\ pt[p].activeQuiz.id = 2
       /\ pt[p].currentQuestion = 0 /\ ~pt[p].userStarted

\* C40: a participant who has started answering an active quiz and has not
\* submitted yet eventually has a result in the quiz record or sees the quiz as
\* no longer running, whether or not anybody clicks anything, as long as the
\* timer keeps ticking, record updates succeed and snapshots are delivered.
C40_StartedEventuallyRecordedOrEnded ==
    \A p \in Players :
       (pt[p].userStarted /\ pt[p].quizStarted /\ ~pt[p].hasSubmitted)
       ~> (\/ \E i \in QuizIds : docs[i].exists /\ p \in DOMAIN docs[i].results
           \/ ~pt[p].quizStarted)

\* A participant who started the quiz and never selected an option, so that
\* only its timer can have submitted, has its result in the record.
C40_Witness ==
    \E p \in Players :
       /\ pt[p].userStarted /\ pt[p].hasSubmitted
       /\ pt[p].activeQuiz # NoQuiz
       /\ \A k \in DOMAIN pt[p].selectedOptions : pt[p].selectedOptions[k] = NULL
       /\ docs[pt[p].activeQuiz.id].exists
       /\ p \in DOMAIN docs[pt[p].activeQuiz.id].results
====
